---- MODULE Spec2Model ----
(***************************************************************************)
(* A model of fucked-up, a Brainfuck interpreter and C generator.          *)
(*                                                                         *)
(* The pipeline of main is: bf_data_from_file (load and validate), then    *)
(* compress (run-length merge and jump resolution), then bf_data_run (the  *)
(* interpreter) or bf_data_through_gcc (the C generator).                  *)
(*                                                                         *)
(* C arrays are modelled as functions over 0..n-1, so that every index of  *)
(* the model is the index the C code uses.                                 *)
(***************************************************************************)
EXTENDS Integers, Sequences, FiniteSets, TLC

VARIABLES
    pc,           \* where the process is: the stage of main being executed
    input_mode,   \* main: READ_FILE, READ_ARG or READ_STDIN
    output_mode,  \* main: WRITE_FILE or WRITE_STDOUT
    goal,         \* main: GOAL_EVAL or GOAL_GCC
    status,       \* main: `int status'
    exit_code,    \* the exit status of the process, None while it runs
    src,          \* the bytes of the source text that the input FILE yields
    charSigned,   \* the build: TRUE when plain char is signed
    file_pos,     \* number of bytes bf_data_from_file has consumed from the FILE
    load,         \* locals of bf_data_from_file: inssize, instructions, i, balance
    ret,          \* value returned by bf_data_from_file
    bf_data,      \* main's bf_data: [instructions |-> array]
    comp,         \* locals of compress: inssize, compressed, i_old, i_new, compressing
    undefined,    \* TRUE once the process has executed undefined behaviour
    vm,           \* locals of bf_data_run: insptr, memmax, memptr, memory
    steps,        \* number of bytecode instructions bf_data_run has executed
    output,       \* the bytes written to output_file
    stdin,        \* the bytes standard input has yielded so far
    stdin_eof,    \* TRUE when standard input ends after those bytes
    in_pos,       \* number of bytes of standard input the process has consumed
    emitted,      \* the statements bf_data_through_gcc wrote between the
                  \* opening and the closing of the generated main
    gp,           \* the process that runs the generated program
    rx            \* the execution of the raw stream, one tag at a time

mainVars == <<input_mode, output_mode, goal, status, exit_code>>
loadVars == <<src, charSigned, file_pos, load, ret>>
vmVars == <<vm, steps, output>>
inVars == <<stdin, stdin_eof, in_pos>>
otherVars == <<emitted, gp, rx>>

vars == <<pc, input_mode, output_mode, goal, status, exit_code, src,
          charSigned, file_pos, load, ret, bf_data, comp, undefined, vm,
          steps, output, stdin, stdin_eof, in_pos, emitted, gp, rx>>

----------------------------------------------------------------------------
(* Bounds of the model *)

\* longest source text enumerated exhaustively for the loader
MaxSrcLen == 4

\* longest source text enumerated exhaustively for main
MaxMainLen == 2

\* longest validated raw stream enumerated exhaustively for compress
MaxRawLen == 5

\* longest validated raw stream that is executed, enumerated exhaustively
MaxRunLen == 4

\* number of bytecode instructions after which an execution is cut off
MaxSteps == 26

\* number of bytes after which standard input ends
MaxInput == 2

----------------------------------------------------------------------------
(* Program constants *)

STATUS_OK == 0
STATUS_UNBALANCED_LOOP == 1
STATUS_LOOP_END_BEFORE_START == 2
STATUS_NO_INPUT == 3
STATUS_CANNOT_REACH_GCC == 4
STATUS_CANNOT_CREATE_TEMP_FILE == 5

BF_UNDEFINED == 0
BF_INC == 1
BF_DEC == 2
BF_GET == 3
BF_PUT == 4
BF_NEXT == 5
BF_PREV == 6
BF_LOOP_START == 0 - 1
BF_LOOP_END == 0 - 2

READ_FILE == 0
READ_ARG == 1
READ_STDIN == 2

WRITE_FILE == 0
WRITE_STDOUT == 1

GOAL_EVAL == 0
GOAL_GCC == 1

\* <sysexits.h>
EX_DATAERR == 65
EX_NOINPUT == 66
EX_SOFTWARE == 70
EX_CANTCREAT == 73

\* <stdio.h>: the value fgetc and getchar return at end of input
EOF == 0 - 1

\* the character codes of the eight symbols of bf_instruction
CH_INC == 43
CH_DEC == 45
CH_GET == 44
CH_PUT == 46
CH_NEXT == 62
CH_PREV == 60
CH_LOOP_START == 91
CH_LOOP_END == 93

\* size_t is an unsigned type of at least 16 bits; the model takes that
\* smallest width, and the matching width of int
SIZE_MAX == 65535
INT_MAX == 32767

\* no value: a function that has not returned, a process that has not exited
\* (no status and no exit status is negative)
None == 0 - 1

----------------------------------------------------------------------------
(* Helpers for C arrays *)

\* calloc(n, sizeof(int)): n cells, all zero
Calloc(n) == [k \in 0..(n - 1) |-> 0]

\* a[k] = v; a write outside the allocation leaves the array as it is (the
\* step that makes it is undefined behaviour)
Put(a, k, v) == IF k \in DOMAIN a THEN [a EXCEPT ![k] = v] ELSE a

\* a[k]; a read outside the allocation is undefined behaviour, and yields
\* zero here
Get(a, k) == IF k \in DOMAIN a THEN a[k] ELSE 0

\* the sequence of the first n cells of an array
Prefix(a, n) == [k \in 1..n |-> a[k - 1]]

\* all sequences over S of length at most n
BoundedSeq(S, n) == UNION {[1..k -> S] : k \in 0..n}

----------------------------------------------------------------------------
(* bf_instruction *)

\* Maps brainfuck instruction to enum element
bf_instruction(c) ==
    CASE c = CH_INC -> BF_INC
      [] c = CH_DEC -> BF_DEC
      [] c = CH_GET -> BF_GET
      [] c = CH_PUT -> BF_PUT
      [] c = CH_NEXT -> BF_NEXT
      [] c = CH_PREV -> BF_PREV
      [] c = CH_LOOP_START -> BF_LOOP_START
      [] c = CH_LOOP_END -> BF_LOOP_END
      [] OTHER -> BF_UNDEFINED

----------------------------------------------------------------------------
(* bf_data_from_file *)

\* fgetc(file): the next byte of the FILE as an int in 0..255, or EOF
fgetc == IF file_pos < Len(src) THEN src[file_pos + 1] ELSE EOF

\* the conversion of an int to `char': the low 8 bits, read as a signed or
\* an unsigned value according to the build
ToChar(v) ==
    LET low == v % 256
    IN  IF charSigned /\ low > 127 THEN low - 256 ELSE low

\* while (i >= inssize - 1) inssize *= 2
RECURSIVE GrowSize(_, _)
GrowSize(inssize, i) ==
    IF i >= inssize - 1 THEN GrowSize(2 * inssize, i) ELSE inssize

\* the instruction space after the doubling loop: the old cells are kept,
\* the new cells are BF_UNDEFINED
Grow(instructions, inssize, i) ==
    [k \in 0..(GrowSize(inssize, i) - 1) |->
        IF k < inssize THEN instructions[k] ELSE BF_UNDEFINED]

\* if (balance < 0) return STATUS_LOOP_END_BEFORE_START
NegativeBalance(balance) == balance < 0

\* if (balance != 0) return STATUS_UNBALANCED_LOOP; ... return STATUS_OK
FinalStatus(balance) ==
    IF balance # 0 THEN STATUS_UNBALANCED_LOOP ELSE STATUS_OK

\* instructions[i] = instruction
StoreInstruction(instructions, i, instruction) ==
    [instructions EXCEPT ![i] = instruction]

\* the FILE is standard input when input_mode is READ_STDIN: what the
\* loader consumes is consumed from standard input
AfterRead(pos) == IF input_mode = READ_STDIN THEN pos ELSE in_pos

\* One iteration of `while ((c = fgetc(file)) != EOF)': the doubling loop,
\* then the instruction of c, if it is one, is stored and the balance kept.
\* On a build with unsigned char, c is 255 at end of input, which differs
\* from EOF: the body runs again, without consuming anything.
LoadChar ==
    /\ pc = "load"
    /\ LET c == ToChar(fgetc)
           size == GrowSize(load.inssize, load.i)
           grown == Grow(load.instructions, load.inssize, load.i)
           instruction == bf_instruction(c)
           balance == IF instruction = BF_LOOP_START THEN load.balance + 1
                      ELSE IF instruction = BF_LOOP_END THEN load.balance - 1
                      ELSE load.balance
           pos == IF file_pos < Len(src) THEN file_pos + 1 ELSE file_pos
       IN  /\ c # EOF
           /\ file_pos' = pos
           /\ in_pos' = AfterRead(pos)
           /\ IF instruction # BF_UNDEFINED
              THEN /\ load' = [inssize |-> size,
                               instructions |->
                                   StoreInstruction(grown, load.i, instruction),
                               i |-> load.i + 1,
                               balance |-> balance]
                   /\ IF NegativeBalance(balance)
                      THEN /\ ret' = STATUS_LOOP_END_BEFORE_START
                           /\ pc' = "loaded"
                      ELSE UNCHANGED <<ret, pc>>
              ELSE /\ load' = [load EXCEPT !.inssize = size,
                                           !.instructions = grown]
                   /\ UNCHANGED <<ret, pc>>
    /\ UNCHANGED <<mainVars, src, charSigned, bf_data, comp, undefined, vmVars,
                   stdin, stdin_eof, otherVars>>

\* The exit of the loop: c = EOF. The balance decides the status, and on
\* success the instruction space is stored in bf_data.
LoadEnd ==
    /\ pc = "load"
    /\ ToChar(fgetc) = EOF
    /\ file_pos' = IF file_pos < Len(src) THEN file_pos + 1 ELSE file_pos
    /\ in_pos' = AfterRead(file_pos')
    /\ ret' = FinalStatus(load.balance)
    /\ bf_data' = IF FinalStatus(load.balance) = STATUS_OK
                  THEN [instructions |-> load.instructions]
                  ELSE bf_data
    /\ pc' = "loaded"
    /\ UNCHANGED <<mainVars, src, charSigned, load, comp, undefined, vmVars,
                   stdin, stdin_eof, otherVars>>

----------------------------------------------------------------------------
(* compress *)

\* the locals of compress before it is entered
NoComp ==
    [inssize |-> 0, compressed |-> Calloc(0), i_old |-> 0, i_new |-> 0,
     compressing |-> BF_UNDEFINED]

\* a faulty variant: the first pass counts a pair for every arithmetic tag,
\* repeated or not
RECURSIVE RequiredSizeUnmerged(_, _, _, _)
RequiredSizeUnmerged(instructions, i, prev, inssize) ==
    IF Get(instructions, i) = 0 THEN inssize
    ELSE LET cur == ToChar(instructions[i])
             size == IF cur \in {BF_GET, BF_PUT}
                     THEN inssize + 1 ELSE inssize + 2
         IN  RequiredSizeUnmerged(instructions, i + 1, cur, size)

\* The first pass: the required size of the compressed instruction space.
\* `char cur' holds the tag converted to char; the switch compares it, promoted
\* to int, with the enum values.
RECURSIVE RequiredSize(_, _, _, _)
RequiredSize(instructions, i, prev, inssize) ==
    IF Get(instructions, i) = 0 THEN inssize
    ELSE LET cur == ToChar(instructions[i])
             size == IF cur \in {BF_INC, BF_DEC, BF_NEXT, BF_PREV}
                     THEN (IF cur # prev THEN inssize + 2 ELSE inssize)
                     ELSE IF cur \in {BF_LOOP_START, BF_LOOP_END}
                     THEN inssize + 2
                     ELSE inssize + 1
         IN  RequiredSize(instructions, i + 1, cur, size)

\* a faulty variant: the nesting counter also counts the BF_LOOP_END the
\* search starts from
RECURSIVE SeekLoopStartMiscounting(_, _, _)
SeekLoopStartMiscounting(compressed, loop_start, counter) ==
    IF loop_start \notin DOMAIN compressed
    THEN [loop_start |-> loop_start, lowest |-> loop_start]
    ELSE IF compressed[loop_start] = BF_LOOP_START /\ counter = 0
    THEN [loop_start |-> loop_start, lowest |-> loop_start]
    ELSE LET c1 == IF compressed[loop_start] = BF_LOOP_START
                   THEN counter - 1 ELSE counter
             c2 == IF compressed[loop_start] = BF_LOOP_END
                   THEN c1 + 1 ELSE c1
         IN  SeekLoopStartMiscounting(compressed, loop_start - 1, c2)

\* The backward search for the BF_LOOP_START matching the BF_LOOP_END just
\* written at loop_start:
\*   while (compressed[loop_start] != BF_LOOP_START || counter != 0) {
\*       if (compressed[loop_start] == BF_LOOP_START) counter--;
\*       loop_start--;
\*       if (compressed[loop_start] == BF_LOOP_END) counter++;
\*   }
\* The result is the final loop_start and the lowest index that was read.
RECURSIVE SeekLoopStart(_, _, _)
SeekLoopStart(compressed, loop_start, counter) ==
    IF loop_start \notin DOMAIN compressed
    THEN [loop_start |-> loop_start, lowest |-> loop_start]
    ELSE IF compressed[loop_start] = BF_LOOP_START /\ counter = 0
    THEN [loop_start |-> loop_start, lowest |-> loop_start]
    ELSE LET c1 == IF compressed[loop_start] = BF_LOOP_START
                   THEN counter - 1 ELSE counter
             c2 == IF Get(compressed, loop_start - 1) = BF_LOOP_END
                   THEN c1 + 1 ELSE c1
         IN  SeekLoopStart(compressed, loop_start - 1, c2)

\* a faulty variant: the search stops at the nearest BF_LOOP_START below i_new,
\* whatever the nesting
MatchingNearestLoopStart(compressed, i_new) ==
    IF \E k \in 0..i_new : Get(compressed, k) = BF_LOOP_START
    THEN LET k == CHOOSE k \in 0..i_new :
                      /\ Get(compressed, k) = BF_LOOP_START
                      /\ \A j \in (k + 1)..i_new :
                             Get(compressed, j) # BF_LOOP_START
         IN  [loop_start |-> k, lowest |-> k]
    ELSE [loop_start |-> 0 - 1, lowest |-> 0 - 1]

\* the search as compress starts it: counter = 0, loop_start = i_new
MatchingLoopStart(compressed, i_new) == SeekLoopStart(compressed, i_new, 0)

\* a faulty variant: a repeated instruction opens a new pair instead of counting
NeverMerging(compressing, tag) == TRUE

\* if (compressing != BF_INC) ... : the tag starts a new (tag, amount) pair
StartsNewPair(compressing, tag) == compressing # tag

\* a faulty variant: the jump of the matching BF_LOOP_START is not set
LoopEndCellsOneWay(compressed, i_new, loop_start) ==
    Put(Put(compressed, i_new, BF_LOOP_END), i_new + 1, loop_start)

\* compressed[i_new] = BF_LOOP_END; compressed[loop_start + 1] = i_new;
\* i_new++; compressed[i_new] = loop_start
LoopEndCells(compressed, i_new, loop_start) ==
    Put(Put(Put(compressed, i_new, BF_LOOP_END), loop_start + 1, i_new),
        i_new + 1, loop_start)

\* One iteration of the second pass, on the tag at i_old: the locals after it,
\* and the set of indices of `compressed' the iteration reads or writes.
CompressOne(c, tag) ==
    IF tag \in {BF_INC, BF_DEC, BF_NEXT, BF_PREV}
    THEN IF StartsNewPair(c.compressing, tag)
         THEN [next |-> [c EXCEPT
                   !.compressing = tag,
                   !.compressed = Put(Put(c.compressed, c.i_new, tag),
                                      c.i_new + 1,
                                      Get(c.compressed, c.i_new + 1) + 1),
                   !.i_old = c.i_old + 1,
                   !.i_new = c.i_new + 2],
               touched |-> {c.i_new, c.i_new + 1}]
         ELSE [next |-> [c EXCEPT
                   !.compressed = Put(c.compressed, c.i_new - 1,
                                      Get(c.compressed, c.i_new - 1) + 1),
                   !.i_old = c.i_old + 1],
               touched |-> {c.i_new - 1}]
    ELSE IF tag = BF_LOOP_START
    THEN [next |-> [c EXCEPT
              !.compressing = BF_UNDEFINED,
              !.compressed = Put(c.compressed, c.i_new, BF_LOOP_START),
              !.i_old = c.i_old + 1,
              !.i_new = c.i_new + 2],
          touched |-> {c.i_new}]
    ELSE IF tag = BF_LOOP_END
    THEN LET written == Put(c.compressed, c.i_new, BF_LOOP_END)
             found == MatchingLoopStart(written, c.i_new)
         IN  [next |-> [c EXCEPT
                  !.compressing = BF_UNDEFINED,
                  !.compressed =
                      LoopEndCells(c.compressed, c.i_new, found.loop_start),
                  !.i_old = c.i_old + 1,
                  !.i_new = c.i_new + 2],
              touched |-> {c.i_new, c.i_new + 1, found.loop_start + 1,
                           found.lowest}]
    ELSE [next |-> [c EXCEPT
              !.compressing = BF_UNDEFINED,
              !.compressed = Put(c.compressed, c.i_new, tag),
              !.i_old = c.i_old + 1,
              !.i_new = c.i_new + 1],
          touched |-> {c.i_new}]

\* bf_data->instructions[0] can be read: the instruction space has a cell.
\* After a failed load bf_data still holds calloc(0, sizeof(int)), which has
\* none: reading it is undefined behaviour.
HasInstructions == 0 \in DOMAIN bf_data.instructions

\* The entry of compress: the first pass, and the allocation of `compressed'.
\* When the instruction space has no cell, the read of its first cell is
\* outside the allocation; the process goes on if that read yields zero.
CompressBegin ==
    /\ pc = "compress"
    /\ comp' = [inssize |-> RequiredSize(bf_data.instructions, 0,
                                         BF_UNDEFINED, 1),
                compressed |-> Calloc(RequiredSize(bf_data.instructions, 0,
                                                   BF_UNDEFINED, 1)),
                i_old |-> 0, i_new |-> 0, compressing |-> BF_UNDEFINED]
    /\ undefined' = (undefined \/ ~HasInstructions)
    /\ pc' = "compressing"
    /\ UNCHANGED <<mainVars, loadVars, bf_data, vmVars, inVars, otherVars>>

\* The other outcome of that read: the process is killed.
CompressFault ==
    /\ pc = "compress"
    /\ ~HasInstructions
    /\ undefined' = TRUE
    /\ pc' = "crashed"
    /\ UNCHANGED <<mainVars, loadVars, bf_data, comp, vmVars, inVars,
                   otherVars>>

\* One iteration of `while (bf_data->instructions[i_old] != 0)'. An access
\* outside `compressed' is undefined behaviour.
CompressStep ==
    /\ pc = "compressing"
    /\ Get(bf_data.instructions, comp.i_old) # 0
    /\ LET one == CompressOne(comp, bf_data.instructions[comp.i_old])
       IN  /\ comp' = one.next
           /\ undefined' =
                  (undefined \/ ~(one.touched \subseteq DOMAIN comp.compressed))
    /\ UNCHANGED <<pc, mainVars, loadVars, bf_data, vmVars, inVars, otherVars>>

\* The exit of the loop: the compressed instruction space replaces the
\* original one.
CompressEnd ==
    /\ pc = "compressing"
    /\ Get(bf_data.instructions, comp.i_old) = 0
    /\ bf_data' = [instructions |-> comp.compressed]
    /\ pc' = "compressed"
    /\ UNCHANGED <<mainVars, loadVars, comp, undefined, vmVars, inVars,
                   otherVars>>

----------------------------------------------------------------------------
(* Standard input *)

\* the program that was loaded is `,.'
LoadedEcho ==
    /\ Get(load.instructions, 0) = BF_GET
    /\ Get(load.instructions, 1) = BF_PUT
    /\ Get(load.instructions, 2) = BF_UNDEFINED

\* the bytes standard input may yield: every byte for the program `,.', and
\* for the other programs a zero, a byte below 128 and a byte above
InputBytes == IF LoadedEcho THEN 0..255 ELSE {0, 65, 200}

\* a faulty variant: the value is written as a 7-bit character
PutByte7(v) == v % 128

\* a faulty variant: the end of the input is read as a zero
GetcharZeroAtEnd(pos) ==
    IF pos < Len(stdin)
    THEN {[c |-> stdin[pos + 1], stdin |-> stdin, eof |-> stdin_eof,
           pos |-> pos + 1]}
    ELSE IF stdin_eof
    THEN {[c |-> 0, stdin |-> stdin, eof |-> TRUE, pos |-> pos]}
    ELSE {[c |-> 0, stdin |-> stdin, eof |-> TRUE, pos |-> pos]}
         \cup {[c |-> b, stdin |-> Append(stdin, b), eof |-> FALSE,
                pos |-> pos + 1] : b \in IF Len(stdin) < MaxInput
                                         THEN InputBytes ELSE {}}

\* getchar() by a reader that has consumed pos bytes: the possible results,
\* each with the byte (or EOF) returned and what is then known of standard
\* input. A byte already yielded is read again by a later reader; at the
\* end of the known bytes the environment yields one more byte or ends the
\* input, and an input that has ended stays ended.
Getchar(pos) ==
    IF pos < Len(stdin)
    THEN {[c |-> stdin[pos + 1], stdin |-> stdin, eof |-> stdin_eof,
           pos |-> pos + 1]}
    ELSE IF stdin_eof
    THEN {[c |-> EOF, stdin |-> stdin, eof |-> TRUE, pos |-> pos]}
    ELSE {[c |-> EOF, stdin |-> stdin, eof |-> TRUE, pos |-> pos]}
         \cup {[c |-> b, stdin |-> Append(stdin, b), eof |-> FALSE,
                pos |-> pos + 1] : b \in IF Len(stdin) < MaxInput
                                         THEN InputBytes ELSE {}}

\* the bytes a process in undefined behaviour may write
Garbage == {0, 1}

\* What the process has written when undefined behaviour ends it is not
\* determined by the program: it may be what it wrote before, nothing (the
\* buffer of the stream is lost), or one more byte.
UndefinedOutputs(out) == {out, <<>>} \cup {Append(out, g) : g \in Garbage}

----------------------------------------------------------------------------
(* bf_data_run *)

\* the locals of bf_data_run before it is entered
NoVm == [insptr |-> 0, memmax |-> 0, memptr |-> 0, memory |-> Calloc(0)]

\* the cell of the instruction space at the instruction pointer
Tag == Get(bf_data.instructions, vm.insptr)

\* the cell after it
Operand == Get(bf_data.instructions, vm.insptr + 1)

\* memory[memptr] is a cell of the tape
OnTape == vm.memptr < vm.memmax

\* memory[memptr], for a cursor on the tape
AtCursor == vm.memory[vm.memptr]

\* a faulty variant: the write goes to every cell of the tape
TapeWriteAll(v) == [k \in DOMAIN vm.memory |-> v]

\* memory[memptr] = v, for a cursor on the tape
TapeWrite(v) == [vm.memory EXCEPT ![vm.memptr] = v]

\* a faulty variant: arithmetic that stops at zero instead of wrapping
SizeTSaturating(n) == IF n < 0 THEN 0 ELSE n % (SIZE_MAX + 1)

\* arithmetic of size_t
SizeT(n) == n % (SIZE_MAX + 1)

\* a faulty variant: the capacity is doubled once, however far the cursor is
NewMemmaxOnce(memmax, memptr) ==
    IF memptr >= memmax THEN 2 * memmax ELSE memmax

\* reallocate_runtime_memory: while (memptr >= new_memmax) new_memmax *= 2
RECURSIVE NewMemmax(_, _)
NewMemmax(memmax, memptr) ==
    IF memptr >= memmax /\ memmax <= INT_MAX
    THEN NewMemmax(2 * memmax, memptr) ELSE memmax

\* a faulty variant: a tape that grows loses its old content
ReallocatedZeroed(memory, memmax, new_memmax) ==
    IF new_memmax > memmax THEN [k \in 0..(new_memmax - 1) |-> 0] ELSE memory

\* the tape after reallocate_runtime_memory: the old content is kept, the
\* extra memory is zero
Reallocated(memory, memmax, new_memmax) ==
    [k \in 0..(new_memmax - 1) |-> IF k < memmax THEN memory[k] ELSE 0]

\* a faulty variant: the jump skips one cell more
ResumeIndexOneTooFar(target) == target + 3

\* a faulty variant: the jump lands on the operand cell of the target
ResumeIndexOnOperand(target) == target + 1

\* insptr = instructions[insptr] + 1, then the insptr++ that ends the iteration
ResumeIndex(target) == target + 2

\* if (memory[memptr] == 0): BF_LOOP_START jumps
LoopStartJumps(v) == v = 0

\* if (memory[memptr] != 0): BF_LOOP_END jumps
LoopEndJumps(v) == v # 0

\* fputc(memory[memptr], output_file): the value converted to unsigned char
PutByte(v) == v % 256

\* The entry of bf_data_run, from `case GOAL_EVAL' of main: the tape is one
\* zero cell.
RunBegin ==
    /\ pc = "compressed"
    /\ goal = GOAL_EVAL
    /\ vm' = [insptr |-> 0, memmax |-> 1, memptr |-> 0, memory |-> Calloc(1)]
    /\ pc' = "run"
    /\ UNCHANGED <<mainVars, loadVars, bf_data, comp, undefined, steps, output,
                   inVars, otherVars>>

\* the guard of every iteration of the dispatch loop
Dispatch(tag) ==
    /\ pc = "run"
    /\ steps < MaxSteps
    /\ Tag = tag

\* the iteration reads or writes memory[memptr]
TouchesTape ==
    Tag \in {BF_INC, BF_DEC, BF_LOOP_START, BF_LOOP_END, BF_PUT, BF_GET}

\* what an iteration leaves alone
RunFrame ==
    UNCHANGED <<pc, mainVars, loadVars, bf_data, comp, undefined, otherVars>>

\* case BF_INC
RunInc ==
    /\ Dispatch(BF_INC)
    /\ OnTape
    /\ vm' = [vm EXCEPT !.insptr = vm.insptr + 2,
                        !.memory = TapeWrite(AtCursor + Operand)]
    /\ steps' = steps + 1
    /\ RunFrame
    /\ UNCHANGED <<output, inVars>>

\* case BF_DEC
RunDec ==
    /\ Dispatch(BF_DEC)
    /\ OnTape
    /\ vm' = [vm EXCEPT !.insptr = vm.insptr + 2,
                        !.memory = TapeWrite(AtCursor - Operand)]
    /\ steps' = steps + 1
    /\ RunFrame
    /\ UNCHANGED <<output, inVars>>

\* case BF_NEXT: the cursor moves, and the tape grows when the cursor has
\* reached its end. new_memmax is an int: when the doubling passes INT_MAX
\* the behaviour is undefined (see RunFault).
RunNext ==
    /\ Dispatch(BF_NEXT)
    /\ LET memptr == SizeT(vm.memptr + Operand)
           new_memmax == NewMemmax(vm.memmax, memptr)
       IN  /\ new_memmax <= INT_MAX
           /\ vm' = [insptr |-> vm.insptr + 2,
                     memmax |-> new_memmax,
                     memptr |-> memptr,
                     memory |-> Reallocated(vm.memory, vm.memmax, new_memmax)]
    /\ steps' = steps + 1
    /\ RunFrame
    /\ UNCHANGED <<output, inVars>>

\* case BF_PREV
RunPrev ==
    /\ Dispatch(BF_PREV)
    /\ vm' = [vm EXCEPT !.insptr = vm.insptr + 2,
                        !.memptr = SizeT(vm.memptr - Operand)]
    /\ steps' = steps + 1
    /\ RunFrame
    /\ UNCHANGED <<output, inVars>>

\* case BF_LOOP_START
RunLoopStart ==
    /\ Dispatch(BF_LOOP_START)
    /\ OnTape
    /\ vm' = [vm EXCEPT !.insptr = IF LoopStartJumps(AtCursor)
                                   THEN ResumeIndex(Operand)
                                   ELSE vm.insptr + 2]
    /\ steps' = steps + 1
    /\ RunFrame
    /\ UNCHANGED <<output, inVars>>

\* case BF_LOOP_END
RunLoopEnd ==
    /\ Dispatch(BF_LOOP_END)
    /\ OnTape
    /\ vm' = [vm EXCEPT !.insptr = IF LoopEndJumps(AtCursor)
                                   THEN ResumeIndex(Operand)
                                   ELSE vm.insptr + 2]
    /\ steps' = steps + 1
    /\ RunFrame
    /\ UNCHANGED <<output, inVars>>

\* case BF_PUT
RunPut ==
    /\ Dispatch(BF_PUT)
    /\ OnTape
    /\ output' = Append(output, PutByte(AtCursor))
    /\ vm' = [vm EXCEPT !.insptr = vm.insptr + 1]
    /\ steps' = steps + 1
    /\ RunFrame
    /\ UNCHANGED inVars

\* case BF_GET: memory[memptr] = getchar()
RunGet ==
    /\ Dispatch(BF_GET)
    /\ OnTape
    /\ \E g \in Getchar(in_pos) :
           /\ vm' = [vm EXCEPT !.insptr = vm.insptr + 1,
                               !.memory = TapeWrite(g.c)]
           /\ stdin' = g.stdin
           /\ stdin_eof' = g.eof
           /\ in_pos' = g.pos
    /\ steps' = steps + 1
    /\ RunFrame
    /\ UNCHANGED output

\* An access to memory[memptr] outside the tape, or the overflow of
\* new_memmax, is undefined behaviour: the model follows the process no
\* further.
RunFault ==
    /\ pc = "run"
    /\ steps < MaxSteps
    /\ IF Tag = BF_NEXT
       THEN NewMemmax(vm.memmax, SizeT(vm.memptr + Operand)) > INT_MAX
       ELSE TouchesTape /\ ~OnTape
    /\ pc' = "crashed"
    /\ undefined' = TRUE
    /\ \E out \in UndefinedOutputs(output) : output' = out
    /\ UNCHANGED <<mainVars, loadVars, bf_data, comp, vm, steps, inVars,
                   otherVars>>

\* The exit of the dispatch loop: the instruction pointer is on the
\* sentinel; the tape is freed and STATUS_OK returned to main, which stores
\* it in status.
RunEnd ==
    /\ pc = "run"
    /\ Tag = BF_UNDEFINED
    /\ status' = STATUS_OK
    /\ pc' = "close"
    /\ UNCHANGED <<input_mode, output_mode, goal, exit_code, loadVars, bf_data,
                   comp, undefined, vmVars, inVars, otherVars>>

RunStep ==
    \/ RunInc \/ RunDec \/ RunNext \/ RunPrev \/ RunLoopStart \/ RunLoopEnd
    \/ RunPut \/ RunGet \/ RunFault \/ RunEnd

\* bf_data_run has stopped, or the model has cut it off
RunStopped ==
    \/ pc \in {"close", "crashed"}
    \/ pc = "run" /\ steps >= MaxSteps

----------------------------------------------------------------------------
(* bf_data_through_gcc: the emitted program *)

\* the statements of the generated program, as the format strings write them
S_ADD == "memory[memptr] += %i;"
S_SUB == "memory[memptr] -= %i;"
S_GET == "memory[memptr] = getchar();"
S_PUT == "putchar(memory[memptr]);"
S_NEXT == "memptr += %i;"
S_MEMFIX == "memfix();"
S_PREV == "memptr -= %i;"
S_WHILE == "while(memory[memptr]!=0){"
S_CLOSE == "}"

Stmt(text, n) == [stmt |-> text, arg |-> n]

\* The emission loop:
\*   for (insptr = 0; instructions[insptr] != BF_UNDEFINED; insptr++)
\* with the insptr++ of the cases that have an operand.
RECURSIVE EmitFrom(_, _)
EmitFrom(b, insptr) ==
    LET tag == Get(b, insptr)
        n == Get(b, insptr + 1)
    IN  IF tag = BF_UNDEFINED THEN <<>>
        ELSE IF tag = BF_INC
        THEN <<Stmt(S_ADD, n)>> \o EmitFrom(b, insptr + 2)
        ELSE IF tag = BF_DEC
        THEN <<Stmt(S_SUB, n)>> \o EmitFrom(b, insptr + 2)
        ELSE IF tag = BF_GET
        THEN <<Stmt(S_GET, 0)>> \o EmitFrom(b, insptr + 1)
        ELSE IF tag = BF_PUT
        THEN <<Stmt(S_PUT, 0)>> \o EmitFrom(b, insptr + 1)
        ELSE IF tag = BF_NEXT
        THEN <<Stmt(S_NEXT, n), Stmt(S_MEMFIX, 0)>> \o EmitFrom(b, insptr + 2)
        ELSE IF tag = BF_PREV
        THEN <<Stmt(S_PREV, n)>> \o EmitFrom(b, insptr + 2)
        ELSE IF tag = BF_LOOP_START
        THEN <<Stmt(S_WHILE, 0)>> \o EmitFrom(b, insptr + 2)
        ELSE IF tag = BF_LOOP_END
        THEN <<Stmt(S_CLOSE, 0)>> \o EmitFrom(b, insptr + 2)
        ELSE EmitFrom(b, insptr + 1)

\* a faulty variant: the call of memfix is not emitted
EmittedWithoutMemfix(b) ==
    SelectSeq(EmitFrom(b, 0), LAMBDA s : s.stmt # S_MEMFIX)

\* the body of the generated main for a bytecode
Emitted(b) == EmitFrom(b, 0)

\* mkstemps fails: STATUS_CANNOT_CREATE_TEMP_FILE is returned to main
GenTempFails ==
    /\ pc = "compressed"
    /\ goal = GOAL_GCC
    /\ status' = STATUS_CANNOT_CREATE_TEMP_FILE
    /\ pc' = "close"
    /\ UNCHANGED <<input_mode, output_mode, goal, exit_code, loadVars, bf_data,
                   comp, undefined, vmVars, inVars, otherVars>>

\* fopen of the intermediate file fails: STATUS_CANNOT_REACH_GCC is returned
GenOpenFails ==
    /\ pc = "compressed"
    /\ goal = GOAL_GCC
    /\ status' = STATUS_CANNOT_REACH_GCC
    /\ pc' = "close"
    /\ UNCHANGED <<input_mode, output_mode, goal, exit_code, loadVars, bf_data,
                   comp, undefined, vmVars, inVars, otherVars>>

\* the program is written to the intermediate file, which is closed
GenEmit ==
    /\ pc = "compressed"
    /\ goal = GOAL_GCC
    /\ emitted' = Emitted(bf_data.instructions)
    /\ pc' = "execl"
    /\ UNCHANGED <<mainVars, loadVars, bf_data, comp, undefined, vmVars,
                   inVars, gp, rx>>

\* the exit statuses of gcc: success, or an error
GccExits == {0, 1}

\* execl("/usr/bin/gcc", ...) succeeds: gcc replaces the process, and its
\* exit status is the exit status of the process. Nothing after the call
\* is executed.
GenExecl ==
    /\ pc = "execl"
    /\ \E code \in GccExits : exit_code' = code
    /\ pc' = "gcc"
    /\ UNCHANGED <<input_mode, output_mode, goal, status, loadVars, bf_data,
                   comp, undefined, vmVars, inVars, otherVars>>

\* execl fails and returns: the intermediate file is removed and STATUS_OK
\* is returned to main
GenExeclFails ==
    /\ pc = "execl"
    /\ status' = STATUS_OK
    /\ pc' = "close"
    /\ UNCHANGED <<input_mode, output_mode, goal, exit_code, loadVars, bf_data,
                   comp, undefined, vmVars, inVars, otherVars>>

----------------------------------------------------------------------------
(* main *)

\* `switch(input_mode)': the input FILE is opened
OpenInput ==
    /\ pc = "open_input"
    /\ pc' = "open_output"
    /\ UNCHANGED <<mainVars, loadVars, bf_data, comp, undefined, vmVars,
                   inVars, otherVars>>

\* fopen(input_arg, "r") returns NULL: exit(EX_NOINPUT)
OpenInputFails ==
    /\ pc = "open_input"
    /\ input_mode = READ_FILE
    /\ exit_code' = EX_NOINPUT
    /\ pc' = "exited"
    /\ UNCHANGED <<input_mode, output_mode, goal, status, loadVars, bf_data,
                   comp, undefined, vmVars, inVars, otherVars>>

\* `switch(output_mode)': output_file is opened, or is stdout
OpenOutput ==
    /\ pc = "open_output"
    /\ pc' = "load"
    /\ UNCHANGED <<mainVars, loadVars, bf_data, comp, undefined, vmVars,
                   inVars, otherVars>>

\* fopen(output_arg, "w") returns NULL: exit(EX_CANTCREAT)
OpenOutputFails ==
    /\ pc = "open_output"
    /\ output_mode = WRITE_FILE
    /\ goal # GOAL_GCC
    /\ exit_code' = EX_CANTCREAT
    /\ pc' = "exited"
    /\ UNCHANGED <<input_mode, output_mode, goal, status, loadVars, bf_data,
                   comp, undefined, vmVars, inVars, otherVars>>

\* the exit status of `switch (status)' after the load, None for `break'
LoadExit(s) ==
    IF s \in {STATUS_UNBALANCED_LOOP, STATUS_LOOP_END_BEFORE_START}
    THEN EX_DATAERR
    ELSE IF s = STATUS_NO_INPUT THEN EX_NOINPUT
    ELSE IF s = STATUS_OK THEN None
    ELSE EX_SOFTWARE

\* fclose(input_file): with READ_STDIN the FILE is stdin itself. What it had
\* not yet yielded is dropped with its buffer and its descriptor, and every
\* later getchar() fails and returns EOF: the reader stands at the end.
AfterClose == IF input_mode = READ_STDIN THEN Len(stdin) ELSE in_pos

\* bf_data_from_file has returned: its value is not stored; the input is
\* closed, and `switch (status)' reads status, which main initialised
AfterLoad ==
    /\ pc = "loaded"
    /\ in_pos' = AfterClose
    /\ exit_code' = LoadExit(status)
    /\ pc' = IF LoadExit(status) = None THEN "compress" ELSE "exited"
    /\ UNCHANGED <<input_mode, output_mode, goal, status, loadVars, bf_data,
                   comp, undefined, vmVars, stdin, stdin_eof, otherVars>>

\* the exit status of the final `switch(status)': main returns 0 unless the
\* status is STATUS_CANNOT_REACH_GCC
FinalExit(s) == IF s = STATUS_CANNOT_REACH_GCC THEN EX_SOFTWARE ELSE 0

\* the backend has returned: the output is closed, and the final
\* `switch(status)' ends the process
Close ==
    /\ pc = "close"
    /\ exit_code' = FinalExit(status)
    /\ pc' = "exited"
    /\ UNCHANGED <<input_mode, output_mode, goal, status, loadVars, bf_data,
                   comp, undefined, vmVars, inVars, otherVars>>

----------------------------------------------------------------------------
(* The generated program: the process that runs what bf_data_through_gcc
   emitted, once compiled *)

\* no such process yet
NoGp ==
    [state |-> "none", ip |-> 1, memory |-> Calloc(0), memsize |-> 0,
     memptr |-> 0, out |-> <<>>, in_pos |-> 0, steps |-> 0]

\* the statement the process is at
GpStmt == IF gp.ip \in DOMAIN emitted THEN emitted[gp.ip] ELSE Stmt("return", 0)

\* memory[memptr] of the generated program is a cell of its tape; memptr is
\* an int, and is negative after a backward move past the first cell
GpOnTape == 0 <= gp.memptr /\ gp.memptr < gp.memsize

\* The brace that matches the one at statement k: the compiler pairs every
\* `}' with the nearest `while(...){' that is still open.
RECURSIVE BraceForward(_, _, _)
BraceForward(stmts, k, depth) ==
    IF k > Len(stmts) THEN k
    ELSE IF stmts[k].stmt = S_CLOSE /\ depth = 0 THEN k
    ELSE BraceForward(stmts, k + 1,
                      IF stmts[k].stmt = S_WHILE THEN depth + 1
                      ELSE IF stmts[k].stmt = S_CLOSE THEN depth - 1
                      ELSE depth)

RECURSIVE BraceBackward(_, _, _)
BraceBackward(stmts, k, depth) ==
    IF k < 1 THEN k
    ELSE IF stmts[k].stmt = S_WHILE /\ depth = 0 THEN k
    ELSE BraceBackward(stmts, k - 1,
                       IF stmts[k].stmt = S_CLOSE THEN depth + 1
                       ELSE IF stmts[k].stmt = S_WHILE THEN depth - 1
                       ELSE depth)

\* the statement after the `}' that closes the while at statement k
AfterLoop(stmts, k) == BraceForward(stmts, k + 1, 0) + 1

\* the first statement of the body of the while that the `}' at k closes
LoopBody(stmts, k) == BraceBackward(stmts, k - 1, 0) + 1

\* memsize after memfix: while(memptr >= memsize) memsize *= 2
RECURSIVE FixedSize(_, _)
FixedSize(memsize, memptr) ==
    IF memptr >= memsize /\ memsize <= INT_MAX
    THEN FixedSize(2 * memsize, memptr) ELSE memsize

\* the generated program has stopped, or the model has cut it off
GpStopped ==
    \/ gp.state \in {"exited", "crashed"}
    \/ gp.state = "running" /\ gp.steps >= MaxSteps /\ GpStmt.stmt # S_MEMFIX

\* The generated program is compiled and started on the same standard
\* input: memsize=1, memptr=0, memory = calloc(memsize, sizeof(int)).
GpBegin ==
    /\ RunStopped
    /\ gp.state = "none"
    /\ emitted' = Emitted(bf_data.instructions)
    /\ gp' = [state |-> "running", ip |-> 1, memory |-> Calloc(1),
              memsize |-> 1, memptr |-> 0, out |-> <<>>, in_pos |-> 0,
              steps |-> 0]
    /\ UNCHANGED <<pc, mainVars, loadVars, bf_data, comp, undefined, vmVars,
                   inVars, rx>>

\* the guard of a statement of the generated program
GpAt(text) ==
    /\ gp.state = "running"
    /\ GpStmt.stmt = text

\* what a statement of the generated program leaves alone
GpFrame ==
    UNCHANGED <<pc, mainVars, loadVars, bf_data, comp, undefined, vmVars,
                emitted, rx>>

\* memory[memptr] += n;  memory[memptr] -= n;
GpArith ==
    /\ gp.steps < MaxSteps
    /\ \/ GpAt(S_ADD)
       \/ GpAt(S_SUB)
    /\ GpOnTape
    /\ gp' = [gp EXCEPT
                 !.memory[gp.memptr] =
                     IF GpStmt.stmt = S_ADD THEN @ + GpStmt.arg
                     ELSE @ - GpStmt.arg,
                 !.ip = @ + 1, !.steps = @ + 1]
    /\ GpFrame
    /\ UNCHANGED inVars

\* memptr += n;  memptr -= n;
GpMove ==
    /\ gp.steps < MaxSteps
    /\ \/ GpAt(S_NEXT)
       \/ GpAt(S_PREV)
    /\ gp' = [gp EXCEPT
                 !.memptr = IF GpStmt.stmt = S_NEXT THEN @ + GpStmt.arg
                            ELSE @ - GpStmt.arg,
                 !.ip = @ + 1, !.steps = @ + 1]
    /\ GpFrame
    /\ UNCHANGED inVars

\* memfix();
GpMemfix ==
    /\ GpAt(S_MEMFIX)
    /\ FixedSize(gp.memsize, gp.memptr) <= INT_MAX
    /\ gp' = [gp EXCEPT
                 !.memsize = FixedSize(gp.memsize, gp.memptr),
                 !.memory = Reallocated(gp.memory, gp.memsize,
                                        FixedSize(gp.memsize, gp.memptr)),
                 !.ip = @ + 1]
    /\ GpFrame
    /\ UNCHANGED inVars

\* while(memory[memptr]!=0){ , and the `}' that goes back to that test
GpLoop ==
    /\ gp.steps < MaxSteps
    /\ \/ GpAt(S_WHILE)
       \/ GpAt(S_CLOSE)
    /\ GpOnTape
    /\ gp' = [gp EXCEPT
                 !.ip = IF GpStmt.stmt = S_WHILE
                        THEN (IF gp.memory[gp.memptr] # 0 THEN gp.ip + 1
                              ELSE AfterLoop(emitted, gp.ip))
                        ELSE (IF gp.memory[gp.memptr] # 0
                              THEN LoopBody(emitted, gp.ip)
                              ELSE gp.ip + 1),
                 !.steps = @ + 1]
    /\ GpFrame
    /\ UNCHANGED inVars

\* putchar(memory[memptr]);
GpPut ==
    /\ gp.steps < MaxSteps
    /\ GpAt(S_PUT)
    /\ GpOnTape
    /\ gp' = [gp EXCEPT !.out = Append(@, PutByte(gp.memory[gp.memptr])),
                        !.ip = @ + 1, !.steps = @ + 1]
    /\ GpFrame
    /\ UNCHANGED inVars

\* memory[memptr] = getchar();
GpGet ==
    /\ gp.steps < MaxSteps
    /\ GpAt(S_GET)
    /\ GpOnTape
    /\ \E g \in Getchar(gp.in_pos) :
           /\ gp' = [gp EXCEPT !.memory[gp.memptr] = g.c,
                               !.in_pos = g.pos,
                               !.ip = @ + 1, !.steps = @ + 1]
           /\ stdin' = g.stdin
           /\ stdin_eof' = g.eof
    /\ GpFrame
    /\ UNCHANGED in_pos

\* An access to memory[memptr] outside the tape is undefined behaviour.
GpFault ==
    /\ gp.state = "running"
    /\ gp.steps < MaxSteps
    /\ GpStmt.stmt \in {S_ADD, S_SUB, S_WHILE, S_CLOSE, S_PUT, S_GET}
    /\ ~GpOnTape
    /\ \E out \in UndefinedOutputs(gp.out) :
           gp' = [gp EXCEPT !.state = "crashed", !.out = out]
    /\ GpFrame
    /\ UNCHANGED inVars

\* the closing brace of main
GpExit ==
    /\ gp.state = "running"
    /\ gp.ip > Len(emitted)
    /\ gp' = [gp EXCEPT !.state = "exited"]
    /\ GpFrame
    /\ UNCHANGED inVars

GpStep ==
    \/ GpArith \/ GpMove \/ GpMemfix \/ GpLoop \/ GpPut \/ GpGet \/ GpFault
    \/ GpExit

----------------------------------------------------------------------------
(* The validated raw streams *)

Tags == {BF_INC, BF_DEC, BF_GET, BF_PUT, BF_NEXT, BF_PREV,
         BF_LOOP_START, BF_LOOP_END}

\* number of BF_LOOP_START minus number of BF_LOOP_END among the first n tags
Balance(s, n) ==
    Cardinality({k \in 1..n : s[k] = BF_LOOP_START})
        - Cardinality({k \in 1..n : s[k] = BF_LOOP_END})

\* what bf_data_from_file accepts: the balance is never negative, and zero
\* at the end
Validated(s) ==
    /\ \A n \in 1..Len(s) : Balance(s, n) >= 0
    /\ Balance(s, Len(s)) = 0

\* the instruction space in which bf_data_from_file leaves the stream s: its
\* size is the power of two the doubling loop reached when the last tag was
\* read, the tags come first, the other cells are zero
AsArray(s) ==
    [k \in 0..(GrowSize(2, Len(s) - 1) - 1) |->
        IF k < Len(s) THEN s[k + 1] ELSE 0]

\* the tags of a source text, BF_UNDEFINED for a byte that is no instruction
TagsOf(text) == [k \in 1..Len(text) |-> bf_instruction(text[k])]

\* the tags of an instruction space, up to its first zero cell
StreamOf(a) ==
    LET n == CHOOSE n \in DOMAIN a :
                 a[n] = 0 /\ \A k \in 0..(n - 1) : a[k] # 0
    IN  Prefix(a, n)

\* the raw stream that compress was given
Raw == StreamOf(load.instructions)

Arithmetic == {BF_INC, BF_DEC, BF_NEXT, BF_PREV}

\* position k of the raw stream r opens a unit of the bytecode: it is a
\* bracket, an I/O instruction, or the first tag of a maximal run
OpensUnit(r, k) ==
    \/ r[k] \notin Arithmetic
    \/ k = 1
    \/ r[k - 1] # r[k]

\* the length of the maximal run that begins at position k
RunLength(r, k) ==
    Cardinality({m \in k..Len(r) : \A j \in k..m : r[j] = r[k]})

\* the number of cells of the unit that position k opens
Width(r, k) ==
    IF ~OpensUnit(r, k) THEN 0
    ELSE IF r[k] \in {BF_GET, BF_PUT} THEN 1 ELSE 2

\* the index, in the bytecode, of the tag cell of the unit that position k
\* opens: the cells of the units before it
RECURSIVE CellOf(_, _)
CellOf(r, k) ==
    IF k <= 1 THEN 0 ELSE CellOf(r, k - 1) + Width(r, k - 1)

\* the index of the sentinel
SentinelCell(r) == CellOf(r, Len(r) + 1)

\* The matcher with a stack: the positions of the open brackets not yet
\* closed are pushed, and a close bracket pops the one it matches.
\* The result maps every matched position to its partner.
RECURSIVE StackMatch(_, _, _, _)
StackMatch(r, k, stack, found) ==
    IF k > Len(r) THEN found
    ELSE IF r[k] = BF_LOOP_START
    THEN StackMatch(r, k + 1, <<k>> \o stack, found)
    ELSE IF r[k] = BF_LOOP_END /\ stack # <<>>
    THEN StackMatch(r, k + 1, Tail(stack),
                    [j \in DOMAIN found \cup {k, Head(stack)} |->
                        IF j = k THEN Head(stack)
                        ELSE IF j = Head(stack) THEN k
                        ELSE found[j]])
    ELSE StackMatch(r, k + 1, stack, found)

Partner(r) == StackMatch(r, 1, <<>>, <<>>)

\* the bytecode that compress produced
Bytecode == bf_data.instructions

----------------------------------------------------------------------------
(* The execution of the raw stream, one tag at a time, on the machine of
   bf_data_run: every tag counts for one, and a bracket goes to the bracket
   the stack matcher pairs with it. The tape and the cursor are those of
   bf_data_run: a size_t cursor, and a tape doubled when the cursor reaches
   its end. *)

\* no such execution yet
NoRx ==
    [state |-> "none", ip |-> 1, memory |-> Calloc(0), memmax |-> 0,
     memptr |-> 0, out |-> <<>>, in_pos |-> 0, steps |-> 0]

\* the tag the execution is at, BF_UNDEFINED past the end
RxTag == IF rx.ip \in DOMAIN Raw THEN Raw[rx.ip] ELSE BF_UNDEFINED

RxOnTape == rx.memptr < rx.memmax

\* the execution of the raw stream has stopped, or the model has cut it off
\* after as many units as the interpreter
RxStopped ==
    \/ rx.state \in {"halted", "undefined"}
    \/ /\ rx.state = "running"
       /\ rx.steps >= MaxSteps
       /\ rx.ip \in DOMAIN Raw
       /\ OpensUnit(Raw, rx.ip)

\* the tag at rx.ip may be executed
RxMay ==
    /\ rx.state = "running"
    /\ rx.ip \in DOMAIN Raw
    /\ OpensUnit(Raw, rx.ip) => rx.steps < MaxSteps

\* the number of units executed once the tag at rx.ip is
RxSteps == IF OpensUnit(Raw, rx.ip) THEN rx.steps + 1 ELSE rx.steps

RxFrame ==
    UNCHANGED <<pc, mainVars, loadVars, bf_data, comp, undefined, vmVars,
                emitted, gp>>

RxBegin ==
    /\ GpStopped
    /\ rx.state = "none"
    /\ rx' = [state |-> "running", ip |-> 1, memory |-> Calloc(1),
              memmax |-> 1, memptr |-> 0, out |-> <<>>, in_pos |-> 0,
              steps |-> 0]
    /\ RxFrame
    /\ UNCHANGED inVars

\* + and -
RxArith ==
    /\ RxMay
    /\ RxTag \in {BF_INC, BF_DEC}
    /\ RxOnTape
    /\ rx' = [rx EXCEPT
                 !.memory[rx.memptr] = IF RxTag = BF_INC THEN @ + 1 ELSE @ - 1,
                 !.ip = @ + 1, !.steps = RxSteps]
    /\ RxFrame
    /\ UNCHANGED inVars

\* > and <
RxMove ==
    /\ RxMay
    /\ RxTag \in {BF_NEXT, BF_PREV}
    /\ LET memptr == SizeT(IF RxTag = BF_NEXT THEN rx.memptr + 1
                            ELSE rx.memptr - 1)
           memmax == IF RxTag = BF_NEXT THEN NewMemmax(rx.memmax, memptr)
                     ELSE rx.memmax
       IN  /\ memmax <= INT_MAX
           /\ rx' = [rx EXCEPT
                        !.memptr = memptr,
                        !.memmax = memmax,
                        !.memory = Reallocated(rx.memory, rx.memmax, memmax),
                        !.ip = @ + 1, !.steps = RxSteps]
    /\ RxFrame
    /\ UNCHANGED inVars

\* [ and ]
RxLoop ==
    /\ RxMay
    /\ RxTag \in {BF_LOOP_START, BF_LOOP_END}
    /\ RxOnTape
    /\ rx' = [rx EXCEPT
                 !.ip = IF (RxTag = BF_LOOP_START) = (rx.memory[rx.memptr] = 0)
                        THEN Partner(Raw)[rx.ip] + 1
                        ELSE rx.ip + 1,
                 !.steps = RxSteps]
    /\ RxFrame
    /\ UNCHANGED inVars

\* .
RxPut ==
    /\ RxMay
    /\ RxTag = BF_PUT
    /\ RxOnTape
    /\ rx' = [rx EXCEPT !.out = Append(@, rx.memory[rx.memptr] % 256),
                        !.ip = @ + 1, !.steps = RxSteps]
    /\ RxFrame
    /\ UNCHANGED inVars

\* ,
RxGet ==
    /\ RxMay
    /\ RxTag = BF_GET
    /\ RxOnTape
    /\ \E g \in Getchar(rx.in_pos) :
           /\ rx' = [rx EXCEPT !.memory[rx.memptr] = g.c,
                               !.in_pos = g.pos,
                               !.ip = @ + 1, !.steps = RxSteps]
           /\ stdin' = g.stdin
           /\ stdin_eof' = g.eof
    /\ RxFrame
    /\ UNCHANGED in_pos

\* the cursor is outside the tape, or the capacity passes INT_MAX: undefined
\* behaviour on this machine too
RxUndefined ==
    /\ RxMay
    /\ IF RxTag = BF_NEXT
       THEN NewMemmax(rx.memmax, SizeT(rx.memptr + 1)) > INT_MAX
       ELSE RxTag # BF_PREV /\ ~RxOnTape
    /\ \E out \in UndefinedOutputs(rx.out) :
           rx' = [rx EXCEPT !.state = "undefined", !.out = out]
    /\ RxFrame
    /\ UNCHANGED inVars

\* the end of the stream
RxHalt ==
    /\ rx.state = "running"
    /\ rx.ip > Len(Raw)
    /\ rx' = [rx EXCEPT !.state = "halted"]
    /\ RxFrame
    /\ UNCHANGED inVars

RxStep ==
    \/ RxArith \/ RxMove \/ RxLoop \/ RxPut \/ RxGet \/ RxUndefined \/ RxHalt

----------------------------------------------------------------------------
(* The source texts *)

\* a byte that is no instruction, and the byte that equals EOF as a signed char
CH_COMMENT == 120
CH_FF == 255

Symbols == {CH_INC, CH_DEC, CH_GET, CH_PUT, CH_NEXT, CH_PREV,
            CH_LOOP_START, CH_LOOP_END}

Alphabet == Symbols \cup {CH_COMMENT, CH_FF}

\* ++++[>++++<-]>.
Scenario1 ==
    <<CH_INC, CH_INC, CH_INC, CH_INC, CH_LOOP_START, CH_NEXT, CH_INC, CH_INC,
      CH_INC, CH_INC, CH_PREV, CH_DEC, CH_LOOP_END, CH_NEXT, CH_PUT>>

\* +[[-]x]]+ : nesting, a comment, and a `]' at balance zero that is not last
Scenario2 ==
    <<CH_INC, CH_LOOP_START, CH_LOOP_START, CH_DEC, CH_LOOP_END, CH_COMMENT,
      CH_LOOP_END, CH_LOOP_END, CH_INC>>

\* [[]+[[]]] : a loop at cell 0 that holds two loops, one of them nested
Scenario3 ==
    <<CH_LOOP_START, CH_LOOP_START, CH_LOOP_END, CH_INC, CH_LOOP_START,
      CH_LOOP_START, CH_LOOP_END, CH_LOOP_END, CH_LOOP_END>>

\* ++[>[]<-] : a loop that is entered, repeated and left, around one that is
\* skipped
Scenario4 ==
    <<CH_INC, CH_INC, CH_LOOP_START, CH_NEXT, CH_LOOP_START, CH_LOOP_END,
      CH_PREV, CH_DEC, CH_LOOP_END>>

\* ,.
Scenario5 == <<CH_GET, CH_PUT>>

\* ,. then the byte 0xFF and the letter A
Scenario6 == <<CH_GET, CH_PUT, CH_FF, 65>>

Scenarios == {Scenario1, Scenario2}

Sources == BoundedSeq(Alphabet, MaxSrcLen) \cup Scenarios

MainSources ==
    BoundedSeq(Alphabet, MaxMainLen) \cup Scenarios \cup {Scenario5, Scenario6}

RawStreams ==
    {s \in BoundedSeq(Tags, MaxRawLen) : Validated(s)}
        \cup {TagsOf(Scenario1), TagsOf(Scenario3)}

RunStreams ==
    {s \in BoundedSeq(Tags, MaxRunLen) : Validated(s)}
        \cup {TagsOf(Scenario1), TagsOf(Scenario4), TagsOf(Scenario5)}

----------------------------------------------------------------------------
(* The specifications *)

\* the locals of bf_data_from_file at its entry
LoadEntry == [inssize |-> 2, instructions |-> Calloc(2), i |-> 0, balance |-> 0]

\* the locals of bf_data_from_file when it returns STATUS_OK for the stream s
LoadOf(s) ==
    [inssize |-> GrowSize(2, Len(s) - 1), instructions |-> AsArray(s),
     i |-> Len(s), balance |-> 0]

\* nothing after the load has happened
NothingRun ==
    /\ comp = NoComp
    /\ undefined = FALSE
    /\ vm = NoVm
    /\ steps = 0
    /\ output = <<>>
    /\ in_pos = 0
    /\ emitted = <<>>
    /\ gp = NoGp
    /\ rx = NoRx
    /\ exit_code = None

\* main after the parsing of the arguments: `int status = STATUS_OK',
\* `bf_data_t bf_data = {calloc(0,sizeof(int))}'. With READ_STDIN the source
\* text is what standard input yields, up to its end.
Init ==
    /\ pc = "open_input"
    /\ input_mode \in {READ_FILE, READ_ARG, READ_STDIN}
    /\ output_mode \in {WRITE_FILE, WRITE_STDOUT}
    /\ goal \in {GOAL_EVAL, GOAL_GCC}
    /\ status = STATUS_OK
    /\ src \in MainSources
    /\ charSigned \in BOOLEAN
    /\ file_pos = 0
    /\ load = LoadEntry
    /\ ret = None
    /\ bf_data = [instructions |-> Calloc(0)]
    /\ stdin = IF input_mode = READ_STDIN THEN src ELSE <<>>
    /\ stdin_eof = (input_mode = READ_STDIN)
    /\ NothingRun

Next ==
    \/ OpenInput \/ OpenInputFails \/ OpenOutput \/ OpenOutputFails
    \/ LoadChar \/ LoadEnd \/ AfterLoad
    \/ CompressBegin \/ CompressFault \/ CompressStep \/ CompressEnd
    \/ RunBegin \/ RunStep
    \/ GenTempFails \/ GenOpenFails \/ GenEmit \/ GenExecl \/ GenExeclFails
    \/ Close

Spec == Init /\ [][Next]_vars

\* bf_data_from_file on its own, from its entry
InitLoad ==
    /\ pc = "load"
    /\ input_mode = READ_FILE
    /\ output_mode = WRITE_STDOUT
    /\ goal = GOAL_EVAL
    /\ status = STATUS_OK
    /\ src \in Sources
    /\ charSigned \in BOOLEAN
    /\ file_pos = 0
    /\ load = LoadEntry
    /\ ret = None
    /\ bf_data = [instructions |-> Calloc(0)]
    /\ stdin = <<>>
    /\ stdin_eof = FALSE
    /\ NothingRun

NextLoad == LoadChar \/ LoadEnd

SpecLoad == InitLoad /\ [][NextLoad]_vars

\* The state at the entry of compress after a load that returned STATUS_OK
\* for the stream s. The loader returns STATUS_OK only on a build with
\* signed char (with unsigned char its loop never sees EOF).
AfterLoadOf(s) ==
    /\ pc = "compress"
    /\ input_mode = READ_FILE
    /\ output_mode = WRITE_STDOUT
    /\ goal = GOAL_EVAL
    /\ status = STATUS_OK
    /\ src = <<>>
    /\ charSigned = TRUE
    /\ file_pos = 0
    /\ load = LoadOf(s)
    /\ ret = STATUS_OK
    /\ bf_data = [instructions |-> AsArray(s)]
    /\ stdin = <<>>
    /\ stdin_eof = FALSE
    /\ NothingRun

\* compress on its own, on every validated raw stream
InitCompress == \E s \in RawStreams : AfterLoadOf(s)

NextCompress == CompressBegin \/ CompressStep \/ CompressEnd

SpecCompress == InitCompress /\ [][NextCompress]_vars

\* compress and bf_data_run on a validated raw stream; then the generated
\* program for the same bytecode, and the raw stream one tag at a time, on
\* the same standard input
InitExec == \E s \in RunStreams : AfterLoadOf(s)

NextExec ==
    \/ CompressBegin \/ CompressStep \/ CompressEnd
    \/ RunBegin \/ RunStep
    \/ GpBegin \/ GpStep
    \/ RxBegin \/ RxStep

SpecExec == InitExec /\ [][NextExec]_vars

\* compress and bf_data_run on their own; the process is scheduled until it
\* ends, so a step that stays possible is taken
NextRun ==
    \/ CompressBegin \/ CompressStep \/ CompressEnd
    \/ RunBegin \/ RunStep

SpecRun == InitExec /\ [][NextRun]_vars /\ WF_vars(NextRun)

\* main after the load of a validated raw stream, with either goal: compress,
\* then bf_data_run or bf_data_through_gcc, then the end of main
InitBackends ==
    \E s \in RunStreams :
        /\ pc = "compress"
        /\ input_mode = READ_FILE
        /\ output_mode = WRITE_STDOUT
        /\ goal \in {GOAL_EVAL, GOAL_GCC}
        /\ status = STATUS_OK
        /\ src = <<>>
        /\ charSigned = TRUE
        /\ file_pos = 0
        /\ load = LoadOf(s)
        /\ ret = STATUS_OK
        /\ bf_data = [instructions |-> AsArray(s)]
        /\ stdin = <<>>
        /\ stdin_eof = FALSE
        /\ NothingRun

NextBackends ==
    \/ CompressBegin \/ CompressStep \/ CompressEnd
    \/ RunBegin \/ RunStep
    \/ GenTempFails \/ GenOpenFails \/ GenEmit \/ GenExecl \/ GenExeclFails
    \/ Close

SpecBackends == InitBackends /\ [][NextBackends]_vars

----------------------------------------------------------------------------
(* main and the loader *)

\* the statuses with which the load fails
LoadFailures == {STATUS_LOOP_END_BEFORE_START, STATUS_UNBALANCED_LOOP}

\* C1: whenever the load of the source text fails with LoopCloseBeforeOpen or
\* UnbalancedLoop, the process terminates with an error, and neither compress
\* nor the interpreter nor the generator is invoked after the failure
C1_FailedLoadAborts ==
    ret \in LoadFailures =>
        /\ pc \in {"loaded", "exited"}
        /\ pc = "exited" => exit_code \notin {None, 0}
        /\ comp = NoComp /\ vm = NoVm /\ emitted = <<>>

\* the positions of a source text at which the running balance is negative:
\* the first of them is the `]' read while the balance is zero
BalanceViolations(text) ==
    {n \in 1..Len(text) : Balance(TagsOf(text), n) < 0}

\* the least element of a nonempty set of numbers
Least(S) == CHOOSE n \in S : \A m \in S : n <= m

\* C4: for every source text, bf_data_from_file returns
\* STATUS_LOOP_END_BEFORE_START if and only if a `]' is read while the running
\* balance is zero, and it returns at that character, having scanned no later
\* one
C4_LoopEndBeforeStartIffCloseAtZero ==
    pc = "loaded" =>
        /\ ret = STATUS_LOOP_END_BEFORE_START <=> BalanceViolations(src) # {}
        /\ ret = STATUS_LOOP_END_BEFORE_START =>
               file_pos = Least(BalanceViolations(src))

\* C5: for every source text in which no `]' is read at balance zero,
\* bf_data_from_file returns STATUS_UNBALANCED_LOOP if and only if the number
\* of `[' differs from the number of `]' at end of input, and STATUS_OK
\* otherwise
C5_UnbalancedIffCountsDiffer ==
    (pc = "loaded" /\ BalanceViolations(src) = {}) =>
        IF Balance(TagsOf(src), Len(src)) # 0
        THEN ret = STATUS_UNBALANCED_LOOP
        ELSE ret = STATUS_OK

\* the tags of the instructions of a source text, in source order
Instructions(text) ==
    SelectSeq(TagsOf(text), LAMBDA t : t # BF_UNDEFINED)

\* C6: on success, the stored stream is exactly the tags of the characters of
\* the source that are instructions, in source order, followed by a zero
\* sentinel cell
C6_StoredStreamIsTagsOfSource ==
    (pc = "loaded" /\ ret = STATUS_OK) =>
        /\ Len(Instructions(src)) \in DOMAIN bf_data.instructions
        /\ \A k \in 1..Len(Instructions(src)) :
               bf_data.instructions[k - 1] = Instructions(src)[k]
        /\ bf_data.instructions[Len(Instructions(src))] = BF_UNDEFINED

----------------------------------------------------------------------------
(* The two backends, and the raw stream *)

\* C2: for every bracket-balanced program and every input, the output of
\* bf_data_run on the bytecode equals the output of the program that
\* bf_data_through_gcc emits for the same bytecode, run on the same input
C2_BackendsWriteSameOutput ==
    (RunStopped /\ GpStopped) => output = gp.out

\* C3: for every validated raw stream and every input, the raw stream
\* executed one tag at a time and the bytecode executed by bf_data_run give
\* the same output, the same tape and cursor, and end in the same way
C3_CompressionIsTransparent ==
    (RunStopped /\ RxStopped) =>
        /\ pc = "close" <=> rx.state = "halted"
        /\ pc = "run" <=> rx.state = "running"
        /\ output = rx.out
        /\ pc # "crashed" => vm.memory = rx.memory /\ vm.memptr = rx.memptr

----------------------------------------------------------------------------
(* compress *)

\* C7: in the bytecode of a validated raw stream, the operand of every LoopEnd
\* is the cell index s of the LoopStart that the stack matcher pairs with it,
\* s is below the index e of the LoopEnd, and the operand of that LoopStart is e
C7_LoopEndOperandIsLexicalMatch ==
    pc = "compressed" =>
        \A j \in 1..Len(Raw) :
            Raw[j] = BF_LOOP_END =>
                LET e == CellOf(Raw, j)
                    s == CellOf(Raw, Partner(Raw)[j])
                IN  /\ Get(Bytecode, e) = BF_LOOP_END
                    /\ Get(Bytecode, s) = BF_LOOP_START
                    /\ Get(Bytecode, e + 1) = s
                    /\ Get(Bytecode, s + 1) = e
                    /\ s < e

\* a nested loop with an operand between the brackets has been compressed
C7_Witness ==
    /\ pc = "compressed"
    /\ \E j \in 1..Len(Raw) :
           /\ Raw[j] = BF_LOOP_END
           /\ \E k \in (Partner(Raw)[j] + 1)..(j - 1) : Raw[k] = BF_LOOP_END
           /\ \E k \in (Partner(Raw)[j] + 1)..(j - 1) : Raw[k] \in Arithmetic

\* the units of a bytecode, in order, read as the interpreter steps through
\* it: [tag, amount] for a pair, [tag, 0] for a single cell; the operand of a
\* bracket is left out
RECURSIVE UnitsFrom(_, _)
UnitsFrom(b, k) ==
    IF Get(b, k) = 0 THEN <<>>
    ELSE IF b[k] \in {BF_GET, BF_PUT}
    THEN <<[tag |-> b[k], amount |-> 0]>> \o UnitsFrom(b, k + 1)
    ELSE IF b[k] \in {BF_LOOP_START, BF_LOOP_END}
    THEN <<[tag |-> b[k], amount |-> 0]>> \o UnitsFrom(b, k + 2)
    ELSE <<[tag |-> b[k], amount |-> Get(b, k + 1)]>> \o UnitsFrom(b, k + 2)

\* the units a raw stream is meant to give: one per maximal run, with its
\* length, and one per bracket and per I/O instruction
RECURSIVE RunsFrom(_, _)
RunsFrom(r, k) ==
    IF k > Len(r) THEN <<>>
    ELSE IF ~OpensUnit(r, k) THEN RunsFrom(r, k + 1)
    ELSE IF r[k] \in Arithmetic
    THEN <<[tag |-> r[k], amount |-> RunLength(r, k)]>> \o RunsFrom(r, k + 1)
    ELSE <<[tag |-> r[k], amount |-> 0]>> \o RunsFrom(r, k + 1)

\* C8: every maximal run of n identical Increment, Decrement, MoveForward or
\* MoveBackward tags becomes exactly one (tag, n) pair, n >= 1, every
\* ReadByte/WriteByte one cell without operand, and the order is kept
C8_RunsMerged ==
    pc = "compressed" =>
        /\ UnitsFrom(Bytecode, 0) = RunsFrom(Raw, 1)
        /\ \A k \in 1..Len(Raw) :
               (OpensUnit(Raw, k) /\ Raw[k] \in Arithmetic) =>
                   /\ Get(Bytecode, CellOf(Raw, k)) = Raw[k]
                   /\ Get(Bytecode, CellOf(Raw, k) + 1) = RunLength(Raw, k)
                   /\ RunLength(Raw, k) >= 1
        /\ \A k \in 1..Len(Raw) :
               Raw[k] \in {BF_GET, BF_PUT} =>
                   /\ Get(Bytecode, CellOf(Raw, k)) = Raw[k]
                   /\ CellOf(Raw, k + 1) = CellOf(Raw, k) + 1

\* a run of two or more has been merged, with a run of the same tag after an
\* I/O instruction or a bracket
C8_Witness ==
    /\ pc = "compressed"
    /\ \E k \in 1..Len(Raw) :
           /\ OpensUnit(Raw, k) /\ Raw[k] \in Arithmetic
           /\ RunLength(Raw, k) >= 2
    /\ \E k \in 2..(Len(Raw) - 1) :
           /\ Raw[k] \notin Arithmetic
           /\ Raw[k - 1] = Raw[k + 1]
           /\ Raw[k + 1] \in Arithmetic

\* the operand cells of the bytecode of r
OperandCells(r) ==
    {CellOf(r, k) + 1 : k \in {j \in 1..Len(r) : Width(r, j) = 2}}

\* C9 as stated: no operand cell of the bytecode holds zero, and zero occurs
\* only as the sentinel
C9_NoZeroOperand ==
    pc = "compressed" =>
        /\ \A c \in OperandCells(Raw) : Get(Bytecode, c) # 0
        /\ \A c \in 0..(SentinelCell(Raw) - 1) : Get(Bytecode, c) # 0

\* C9, amended: no run-length count and no LoopStart operand is zero, no tag
\* cell before the sentinel is zero, and the operand of a LoopEnd is zero
\* exactly when its matching LoopStart is the cell at index 0
C9_ZeroOperandOnlyJumpToCellZero ==
    pc = "compressed" =>
        /\ \A k \in 1..Len(Raw) :
               Width(Raw, k) = 2 =>
                   (Get(Bytecode, CellOf(Raw, k) + 1) = 0
                       <=> /\ Raw[k] = BF_LOOP_END
                           /\ CellOf(Raw, Partner(Raw)[k]) = 0)
        /\ \A k \in 1..Len(Raw) :
               OpensUnit(Raw, k) => Get(Bytecode, CellOf(Raw, k)) # 0
        /\ Get(Bytecode, SentinelCell(Raw)) = 0

\* a bytecode with a zero LoopEnd operand, a nonzero one, and a count
C9_Witness ==
    /\ pc = "compressed"
    /\ \E k \in 1..Len(Raw) :
           Raw[k] = BF_LOOP_END /\ Get(Bytecode, CellOf(Raw, k) + 1) = 0
    /\ \E k \in 1..Len(Raw) :
           Raw[k] = BF_LOOP_END /\ Get(Bytecode, CellOf(Raw, k) + 1) # 0
    /\ \E k \in 1..Len(Raw) : Raw[k] \in Arithmetic

----------------------------------------------------------------------------
(* bf_data_run: the loops *)

\* the bytecode cell c is the tag cell of a unit of the raw stream
IsUnit(c) ==
    \E k \in 1..Len(Raw) : OpensUnit(Raw, k) /\ CellOf(Raw, k) = c

\* the position of the raw stream whose unit has its tag at cell c
UnitAt(c) ==
    CHOOSE k \in 1..Len(Raw) : OpensUnit(Raw, k) /\ CellOf(Raw, k) = c

\* the cell after the pair of the bracket that matches the bracket at cell c:
\* for a LoopStart the instruction after its LoopEnd, for a LoopEnd the first
\* instruction of the loop body
PastPartner(c) == CellOf(Raw, Partner(Raw)[UnitAt(c)]) + 2

\* bf_data_run executes the bracket at the instruction pointer
BracketStep ==
    /\ pc = "run"
    /\ steps' = steps + 1
    /\ Tag \in {BF_LOOP_START, BF_LOOP_END}

\* the step of a LoopStart on a zero cell, or of a LoopEnd on a nonzero cell
Jumping == (Tag = BF_LOOP_START) = (AtCursor = 0)

LoopOnly == <<BF_LOOP_START, BF_LOOP_END>>

\* C10: a LoopStart executed on a zero cell resumes at the instruction after
\* its matching LoopEnd, a LoopEnd executed on a nonzero cell resumes at the
\* first instruction of the loop body, and in the other two cases execution
\* falls through to the next instruction; the program [] on a fresh tape
\* terminates without executing a body step and with empty output
C10_LoopJumps ==
    /\ [][BracketStep =>
             /\ IsUnit(vm.insptr)
             /\ vm'.insptr = IF Jumping THEN PastPartner(vm.insptr)
                             ELSE vm.insptr + 2
             /\ vm'.memory = vm.memory
             /\ vm'.memptr = vm.memptr
             /\ output' = output]_vars
    /\ []((Raw = LoopOnly /\ pc \in {"run", "close"}) =>
             /\ output = <<>>
             /\ steps <= 1
             /\ vm.insptr \in {0, SentinelCell(Raw)})
    /\ (Raw = LoopOnly) ~> (pc = "close" /\ steps = 1 /\ output = <<>>)

\* ++[>[]<-] has run to its end: a LoopStart fell through and one jumped, a
\* LoopEnd jumped and one fell through
C10_Witness ==
    /\ pc = "close"
    /\ Raw = TagsOf(Scenario4)
    /\ steps = 12
    /\ vm.memory = Calloc(2)

----------------------------------------------------------------------------
(* bf_data_run: the tape *)

\* the capacity b is the capacity a doubled once or more
Doubled(a, b) == \E k \in 1..16 : b = a * (2 ^ k)

\* bf_data_run is at a MoveForward
AtMoveForward == pc = "run" /\ steps < MaxSteps /\ Tag = BF_NEXT

\* the cursor that the MoveForward at the instruction pointer gives
CursorAfterMove == SizeT(vm.memptr + Operand)

\* C11: whenever a MoveForward takes the cursor to or past the capacity, the
\* tape grows by repeated doubling to a capacity strictly greater than the
\* cursor, every cell below the old capacity keeps its value and every new
\* cell is zero; capacity never decreases during a run
C11_ForwardMoveGrowsTape ==
    /\ [][AtMoveForward =>
             /\ pc' = "run"
             /\ vm'.memptr = CursorAfterMove
             /\ IF CursorAfterMove >= vm.memmax
                THEN /\ vm'.memmax > CursorAfterMove
                     /\ Doubled(vm.memmax, vm'.memmax)
                ELSE vm'.memmax = vm.memmax
             /\ DOMAIN vm'.memory = 0..(vm'.memmax - 1)
             /\ \A k \in 0..(vm.memmax - 1) : vm'.memory[k] = vm.memory[k]
             /\ \A k \in vm.memmax..(vm'.memmax - 1) : vm'.memory[k] = 0]_vars
    /\ [][pc = "run" => vm'.memmax >= vm.memmax]_vars

----------------------------------------------------------------------------
(* bf_data_run with another initial capacity and another growth factor: the
   dispatch loop of bf_data_run, with the 1 of `size_t memmax = 1' and the 2
   of `new_memmax *= 2' as parameters, replayed on the bytes that standard
   input has yielded *)

\* the locals at the entry, for the initial capacity cap; `below' records
\* that the cursor has moved below index zero
AltEntry(cap) ==
    [insptr |-> 0, memmax |-> cap, memptr |-> 0, memory |-> Calloc(cap),
     out |-> <<>>, in_pos |-> 0, below |-> FALSE]

\* while (memptr >= new_memmax) new_memmax *= factor
RECURSIVE AltMemmax(_, _, _)
AltMemmax(memmax, memptr, factor) ==
    IF memptr >= memmax /\ memmax <= INT_MAX
    THEN AltMemmax(factor * memmax, memptr, factor) ELSE memmax

\* getchar() on the bytes standard input has yielded, which end there
AltGetchar(pos) == IF pos < Len(stdin) THEN stdin[pos + 1] ELSE EOF

\* one iteration of the dispatch loop on the bytecode b
AltStep(b, a, factor) ==
    LET tag == Get(b, a.insptr)
        n == Get(b, a.insptr + 1)
        v == Get(a.memory, a.memptr)
    IN  IF tag = BF_INC
        THEN [a EXCEPT !.memory = Put(@, a.memptr, v + n), !.insptr = @ + 2]
        ELSE IF tag = BF_DEC
        THEN [a EXCEPT !.memory = Put(@, a.memptr, v - n), !.insptr = @ + 2]
        ELSE IF tag = BF_NEXT
        THEN [a EXCEPT
                 !.memptr = SizeT(a.memptr + n),
                 !.memmax = AltMemmax(a.memmax, SizeT(a.memptr + n), factor),
                 !.memory = Reallocated(a.memory, a.memmax,
                                AltMemmax(a.memmax, SizeT(a.memptr + n),
                                          factor)),
                 !.insptr = @ + 2]
        ELSE IF tag = BF_PREV
        THEN [a EXCEPT !.memptr = SizeT(a.memptr - n),
                       !.below = a.memptr - n < 0,
                       !.insptr = @ + 2]
        ELSE IF tag = BF_LOOP_START
        THEN [a EXCEPT !.insptr = IF LoopStartJumps(v) THEN ResumeIndex(n)
                                  ELSE a.insptr + 2]
        ELSE IF tag = BF_LOOP_END
        THEN [a EXCEPT !.insptr = IF LoopEndJumps(v) THEN ResumeIndex(n)
                                  ELSE a.insptr + 2]
        ELSE IF tag = BF_PUT
        THEN [a EXCEPT !.out = Append(@, PutByte(v)), !.insptr = @ + 1]
        ELSE IF tag = BF_GET
        THEN [a EXCEPT !.memory = Put(@, a.memptr, AltGetchar(a.in_pos)),
                       !.in_pos = IF a.in_pos < Len(stdin) THEN @ + 1 ELSE @,
                       !.insptr = @ + 1]
        ELSE [a EXCEPT !.insptr = @ + 1]

\* the first n iterations, as far as the cursor stays at or above index zero
RECURSIVE AltRun(_, _, _, _)
AltRun(b, a, factor, n) ==
    IF n = 0 \/ a.below \/ Get(b, a.insptr) = BF_UNDEFINED THEN a
    ELSE AltRun(b, AltStep(b, a, factor), factor, n - 1)

\* the initial capacities and the growth factors that are compared
Capacities == {1, 2, 3}
Factors == {2, 3}

\* the run with the capacity and the factor of the code
AsCoded == AltRun(Bytecode, AltEntry(1), 2, steps)

----------------------------------------------------------------------------
(* bf_data_run: termination *)

\* the raw stream has no loop bracket
NoBrackets == \A k \in 1..Len(Raw) : Raw[k] \notin {BF_LOOP_START, BF_LOOP_END}

\* the index of the cell after the first n instructions of the bytecode b
RECURSIVE CellAfter(_, _)
CellAfter(b, n) ==
    IF n = 0 THEN 0
    ELSE LET c == CellAfter(b, n - 1)
         IN  IF Get(b, c) \in {BF_GET, BF_PUT} THEN c + 1 ELSE c + 2

\* C13: bf_data_run stops exactly when the instruction pointer is on the
\* zero sentinel cell, and then returns STATUS_OK; a validated program
\* without loop brackets always reaches the sentinel, having executed each
\* instruction of the bytecode once, in stream order
C13_StopsAtSentinel ==
    /\ pc = "close" => (Tag = BF_UNDEFINED /\ status = STATUS_OK)
    /\ (pc = "run" /\ steps < MaxSteps /\ Tag = BF_UNDEFINED) => ENABLED RunEnd
    /\ (pc = "run" /\ Tag # BF_UNDEFINED) => ~ENABLED RunEnd
    /\ NoBrackets =>
           /\ pc # "crashed"
           /\ pc \in {"run", "close"} =>
                  /\ vm.insptr = CellAfter(Bytecode, steps)
                  /\ steps <= Len(UnitsFrom(Bytecode, 0))
           /\ pc = "close" => steps = Len(UnitsFrom(Bytecode, 0))

----------------------------------------------------------------------------
(* The scenarios of the specification, through main *)

\* main interprets ++++[>++++<-]>.
Interprets(text) == src = text /\ goal = GOAL_EVAL

\* C14: loading, compressing and interpreting ++++[>++++<-]>. with empty
\* input terminates and writes exactly one output byte, whose value is 16:
\* the loader returns STATUS_OK at the end of the text, no stage is cut short
\* or ends in undefined behaviour, and the output is the byte 16 once the
\* interpreter has returned
C14_Scenario1Writes16 ==
    Interprets(Scenario1) =>
        /\ (pc = "load" /\ file_pos = Len(src)) => ENABLED LoadEnd
        /\ pc = "loaded" => (ret = STATUS_OK /\ file_pos = Len(src))
        /\ pc # "crashed" /\ ~undefined
        /\ pc = "run" => (steps < MaxSteps \/ Tag = BF_UNDEFINED)
        /\ pc = "close" => output = <<16>>
        /\ (pc = "exited" /\ ret # None) => (output = <<16>> /\ exit_code = 0)

----------------------------------------------------------------------------
(* bf_data_run: input and output *)

\* C15: for every input byte b in 0..255, interpreting `,.' with b as the
\* next available input byte writes exactly one output byte, equal to b
C15_EchoWritesInputByte ==
    (Raw = TagsOf(Scenario5) /\ Len(stdin) >= 1) =>
        /\ stdin[1] \in 0..255
        /\ pc # "crashed"
        /\ (pc = "run" /\ steps = 1) => (AtCursor = stdin[1] /\ output = <<>>)
        /\ (pc = "close" \/ (pc = "run" /\ steps = 2)) => output = <<stdin[1]>>
        /\ steps <= 2

\* `,.' has run to its end with 65 as its input byte
C15_Witness ==
    /\ Raw = TagsOf(Scenario5)
    /\ pc = "close"
    /\ stdin = <<65>>
    /\ output = <<65>>


\* bf_data_run is at a BF_GET with the cursor on the tape
AtGet == pc = "run" /\ steps < MaxSteps /\ Tag = BF_GET /\ OnTape

\* the input is exhausted: every byte of it has been read and it has ended
Exhausted == stdin_eof /\ in_pos = Len(stdin)

\* the step is a BF_GET for which getchar() has returned EOF
ReadsEndOfInput == AtGet /\ vm'.insptr = vm.insptr + 1 /\ in_pos' = in_pos

\* C16: a ReadByte executed when the input is exhausted stores the
\* end-of-input value -1 in the cursor cell, never zero, on every such read,
\* so that the cell is nonzero for a following LoopStart or LoopEnd test
C16_EndOfInputStoresMinusOne ==
    /\ [][(AtGet /\ Exhausted /\ vm' # vm) => ReadsEndOfInput]_vars
    /\ [][Exhausted => Exhausted']_vars
    /\ [][ReadsEndOfInput =>
            /\ Exhausted'
            /\ vm'.memory = [vm.memory EXCEPT ![vm.memptr] = 0 - 1]
            /\ vm'.memory[vm.memptr] = EOF
            /\ vm'.memory[vm.memptr] # 0
            /\ PutByte(vm'.memory[vm.memptr]) = 255
            /\ ~LoopStartJumps(vm'.memory[vm.memptr])
            /\ LoopEndJumps(vm'.memory[vm.memptr])
            /\ vm'.memptr = vm.memptr
            /\ output' = output]_vars

\* `,+,' has read the end of the input twice: the second read has stored -1
\* over the zero the increment had left
C16_Witness ==
    /\ Raw = <<BF_GET, BF_INC, BF_GET>>
    /\ pc = "run"
    /\ steps = 3
    /\ stdin = <<>>
    /\ stdin_eof
    /\ AtCursor = EOF


\* the step executes a BF_PUT
ExecutesPut == Dispatch(BF_PUT) /\ steps' = steps + 1

\* C17: each executed WriteByte appends exactly one byte to the output, the
\* cursor cell's value modulo 256, and changes neither the tape nor the
\* cursor; no other instruction appends to the output, so the interpreter's
\* output is exactly the sequence of those bytes in execution order
C17_OutputIsTheBytesWritten ==
    /\ [][ExecutesPut =>
            /\ OnTape
            /\ output' = Append(output, AtCursor % 256)
            /\ vm'.memory = vm.memory
            /\ vm'.memptr = vm.memptr
            /\ vm'.memmax = vm.memmax]_vars
    /\ [][~ExecutesPut => output' = output]_vars

----------------------------------------------------------------------------
(* main: the errors and the exit status *)

\* the step in which execl returns: gcc could not be started
CompilerNotStarted == pc = "execl" /\ pc' = "close"

\* main is past a bf_data_through_gcc that has reported the compiler
CompilerReported ==
    goal = GOAL_GCC /\ pc = "close" /\ status = STATUS_CANNOT_REACH_GCC

\* C18: when the external compiler cannot be started or fails, the
\* generation path reports it: bf_data_through_gcc returns a status other
\* than STATUS_OK and main ends with a non-zero exit status, after one
\* diagnostic and without a retry
C18_CompilerFailureIsReported ==
    /\ [][CompilerNotStarted => status' # STATUS_OK]_vars
    /\ [][(CompilerReported /\ pc' = "exited") => exit_code' \notin {None, 0}]_vars
    /\ [][(pc \in {"execl", "gcc", "close"}) =>
             pc' \notin {"compressed", "execl"}]_vars


\* the error classes main can report
ErrorClasses ==
    {"LoopCloseBeforeOpen", "UnbalancedLoop", "InputUnavailable",
     "CompilerUnavailable", "OutputUnavailable"}

\* the exit status main gives to each error class
ExitStatusOf(class) ==
    CASE class = "LoopCloseBeforeOpen" -> LoadExit(STATUS_LOOP_END_BEFORE_START)
      [] class = "UnbalancedLoop"      -> LoadExit(STATUS_UNBALANCED_LOOP)
      [] class = "InputUnavailable"    -> EX_NOINPUT
      [] class = "CompilerUnavailable" -> FinalExit(STATUS_CANNOT_REACH_GCC)
      [] class = "OutputUnavailable"   -> EX_CANTCREAT

\* the step ends the process, and the error of the class has occurred
EndsWith(class) ==
    /\ pc # "exited"
    /\ pc' = "exited"
    /\ CASE class = "LoopCloseBeforeOpen" -> ret = STATUS_LOOP_END_BEFORE_START
         [] class = "UnbalancedLoop"      -> ret = STATUS_UNBALANCED_LOOP
         [] class = "InputUnavailable"    -> pc = "open_input"
         [] class = "CompilerUnavailable" -> CompilerReported
         [] class = "OutputUnavailable"   -> pc = "open_output"

\* C19: each error class that main can report ends the process with an exit
\* status that differs from the exit status of every other error class and
\* from the success status
C19_ExitStatusTellsTheError ==
    [][\A class \in ErrorClasses :
          EndsWith(class) =>
              /\ exit_code' \notin {None, 0}
              /\ exit_code' = ExitStatusOf(class)
              /\ \A other \in ErrorClasses \ {class} :
                     ExitStatusOf(other) # exit_code']_vars


\* C20: main ends with the success exit status only if the load, the
\* compression and the selected backend have all completed without error:
\* every status other than STATUS_OK returned by bf_data_from_file,
\* bf_data_run or bf_data_through_gcc, the failure to create the intermediate
\* file included, leads to a non-zero exit status
C20_SuccessOnlyWithoutError ==
    (pc = "exited" /\ exit_code = 0) =>
        /\ ret = STATUS_OK
        /\ status = STATUS_OK

----------------------------------------------------------------------------
(* compress: the two passes *)

\* the cells of `compressed' that the iteration of the second pass at i_old
\* reads or writes
Touched == CompressOne(comp, bf_data.instructions[comp.i_old]).touched

\* the step is an iteration of the second pass
SecondPassStep == pc = "compressing" /\ comp'.i_old = comp.i_old + 1

\* C21: for every validated raw stream the length computed by the first pass
\* of compress is exact: the second pass writes only cells with an index
\* below (computed length - 1), ends with its output cursor equal to
\* (computed length - 1), and the cell at that index is the zero sentinel
C21_FirstPassLengthIsExact ==
    /\ [][SecondPassStep =>
            /\ Touched \subseteq 0..(comp.inssize - 2)
            /\ \A k \in DOMAIN comp.compressed :
                   comp'.compressed[k] # comp.compressed[k] =>
                       k < comp.inssize - 1
            /\ DOMAIN comp'.compressed = DOMAIN comp.compressed
            /\ comp'.inssize = comp.inssize]_vars
    /\ [](pc = "compressing" =>
            /\ DOMAIN comp.compressed = 0..(comp.inssize - 1)
            /\ comp.i_new <= comp.inssize - 1
            /\ \A k \in comp.i_new..(comp.inssize - 1) :
                   comp.compressed[k] = 0)
    /\ [](pc = "compressed" =>
            /\ comp.i_new = comp.inssize - 1
            /\ comp.inssize - 1 = SentinelCell(Raw)
            /\ Bytecode[comp.inssize - 1] = 0
            /\ DOMAIN Bytecode = 0..(comp.inssize - 1)
            /\ ~undefined)

\* compress has ended on a stream with merged runs and a loop
C21_Witness ==
    /\ pc = "compressed"
    /\ Raw = TagsOf(Scenario1)
    /\ comp.i_new = comp.inssize - 1
    /\ comp.inssize < 2 * Len(Raw) + 1


\* the iteration of the second pass at i_old is on a BF_LOOP_END
AtLoopEnd ==
    /\ pc = "compressing"
    /\ Get(bf_data.instructions, comp.i_old) = BF_LOOP_END

\* `compressed' when the backward scan starts: the tag has been written
ScanArray == Put(comp.compressed, comp.i_new, BF_LOOP_END)

\* the outcome of the backward scan
Scan == MatchingLoopStart(ScanArray, comp.i_new)

\* the nesting counter when the scan stands at cell k: the BF_LOOP_END cells
\* it has stepped onto, less the BF_LOOP_START cells it has stepped off
Counter(k) ==
    Cardinality({j \in k..(comp.i_new - 1) : ScanArray[j] = BF_LOOP_END})
        - Cardinality({j \in (k + 1)..(comp.i_new - 1) :
                           ScanArray[j] = BF_LOOP_START})

\* C22: for every validated raw stream, the backward scan that compress runs
\* at each LoopEnd terminates at a LoopStart tag with its nesting counter at
\* zero and never reads an output cell at an index below zero
C22_BackwardScanStaysInside ==
    AtLoopEnd =>
        /\ Scan.lowest >= 0
        /\ Scan.loop_start \in 0..(comp.i_new - 1)
        /\ ScanArray[Scan.loop_start] = BF_LOOP_START
        /\ Counter(Scan.loop_start) = 0
        /\ \A k \in (Scan.loop_start + 1)..(comp.i_new - 1) :
               ~(ScanArray[k] = BF_LOOP_START /\ Counter(k) = 0)

\* the scan for the last `]' of `[[]+[[]]]' is about to run: it passes two
\* closed loops and a pair before it stops at cell 0
C22_Witness ==
    /\ AtLoopEnd
    /\ Raw = TagsOf(Scenario3)
    /\ comp.i_old = Len(Raw) - 1
    /\ Scan.loop_start = 0
    /\ Scan.lowest = 0

----------------------------------------------------------------------------
(* bf_data_run: what each instruction changes *)

\* the step executes an instruction with the given tag
Executes(tag) == Dispatch(tag) /\ steps' = steps + 1

\* the step changes no cell that the tape had
KeepsCells ==
    \A k \in DOMAIN vm.memory :
        k \in DOMAIN vm'.memory /\ vm'.memory[k] = vm.memory[k]

\* C23: in bf_data_run, Increment and Decrement change only the cell at the
\* cursor, by exactly the operand, and leave the cursor, the capacity, all
\* other cells and the output unchanged; MoveForward and MoveBackward are the
\* only instructions that change the cursor and they change no cell value;
\* LoopStart and LoopEnd change only the instruction pointer
C23_InstructionFrames ==
    /\ [][(Executes(BF_INC) \/ Executes(BF_DEC)) =>
             /\ vm'.memory =
                    [vm.memory EXCEPT ![vm.memptr] =
                        IF Tag = BF_INC THEN @ + Operand ELSE @ - Operand]
             /\ Operand >= 1
             /\ vm'.memptr = vm.memptr
             /\ vm'.memmax = vm.memmax
             /\ output' = output]_vars
    /\ [][(pc = "run" /\ vm'.memptr # vm.memptr) =>
             Tag \in {BF_NEXT, BF_PREV}]_vars
    /\ [][(Executes(BF_NEXT) \/ Executes(BF_PREV)) =>
             /\ KeepsCells
             /\ vm'.memptr # vm.memptr
             /\ output' = output]_vars
    /\ [][(Executes(BF_LOOP_START) \/ Executes(BF_LOOP_END)) =>
             /\ vm'.memory = vm.memory
             /\ vm'.memptr = vm.memptr
             /\ vm'.memmax = vm.memmax
             /\ output' = output
             /\ <<stdin, stdin_eof, in_pos>>' = <<stdin, stdin_eof, in_pos>>]_vars

\* ++++[>++++<-]>. has run to its end: increments and decrements with a
\* nonzero neighbour cell, moves in both directions, and both brackets
C23_Witness ==
    /\ pc = "close"
    /\ Raw = TagsOf(Scenario1)
    /\ vm.memptr = 1
    /\ vm.memory[0] = 0
    /\ vm.memory[1] = 16


\* bf_data_run is at a BF_PREV
AtMoveBackward == pc = "run" /\ steps < MaxSteps /\ Tag = BF_PREV

\* C24: MoveBackward in bf_data_run subtracts its operand from the cursor with
\* no bounds or growth check and raises no error: it never changes the
\* capacity or any cell, and when the operand exceeds the cursor the unsigned
\* cursor wraps modulo 2^w instead of trapping
C24_BackwardMoveWraps ==
    /\ [][AtMoveBackward =>
             /\ Executes(BF_PREV)
             /\ pc' = "run"
             /\ undefined' = undefined
             /\ vm'.insptr = vm.insptr + 2
             /\ vm'.memptr = IF Operand <= vm.memptr
                             THEN vm.memptr - Operand
                             ELSE vm.memptr - Operand + (SIZE_MAX + 1)
             /\ vm'.memmax = vm.memmax
             /\ vm'.memory = vm.memory
             /\ output' = output]_vars
    /\ [](AtMoveBackward => ENABLED RunPrev)

\* a MoveBackward by more than the cursor has been executed: the cursor has
\* wrapped
C24_Witness ==
    /\ pc = "run"
    /\ steps = 2
    /\ Raw = <<BF_NEXT, BF_PREV, BF_PREV, BF_PREV>>
    /\ vm.memptr = SIZE_MAX - 1
    /\ vm.memmax = 2

----------------------------------------------------------------------------
(* bf_data_through_gcc: the emitted body *)

\* bf_data_through_gcc has written the body: it is at execl, or gcc runs, or
\* execl has failed and the function has returned
HasEmitted ==
    /\ goal = GOAL_GCC
    /\ \/ pc \in {"execl", "gcc"}
       \/ pc \in {"close", "exited"} /\ status = STATUS_OK

\* the statement bf_data_through_gcc emits for a tag
StatementOf(tag) ==
    CASE tag = BF_INC        -> S_ADD
      [] tag = BF_DEC        -> S_SUB
      [] tag = BF_GET        -> S_GET
      [] tag = BF_PUT        -> S_PUT
      [] tag = BF_NEXT       -> S_NEXT
      [] tag = BF_PREV       -> S_PREV
      [] tag = BF_LOOP_START -> S_WHILE
      [] tag = BF_LOOP_END   -> S_CLOSE

\* the emitted statements without the calls of memfix
Translations == SelectSeq(emitted, LAMBDA s : s.stmt # S_MEMFIX)

\* openers less closers among the first n emitted statements
OpenBlocks(n) ==
    Cardinality({k \in 1..n : emitted[k].stmt = S_WHILE})
        - Cardinality({k \in 1..n : emitted[k].stmt = S_CLOSE})

\* C25: bf_data_through_gcc emits, in bytecode order, exactly one statement
\* per bytecode instruction, carrying that instruction's operand as a literal;
\* every emitted forward move is immediately followed by a call of the
\* capacity fix-up routine; each LoopStart emits one block opener and each
\* LoopEnd one block closer, so that in every prefix of the emitted body
\* closers never outnumber openers and at the end they are equal
C25_OneStatementPerInstruction ==
    HasEmitted =>
        LET units == UnitsFrom(Bytecode, 0)
        IN  /\ Len(Translations) = Len(units)
            /\ \A k \in 1..Len(units) :
                   /\ Translations[k].stmt = StatementOf(units[k].tag)
                   /\ Translations[k].arg = units[k].amount
                   /\ units[k].tag \in Arithmetic => Translations[k].arg >= 1
            /\ \A k \in 1..Len(emitted) :
                   /\ emitted[k].stmt = S_NEXT =>
                          (k < Len(emitted) /\ emitted[k + 1].stmt = S_MEMFIX)
                   /\ emitted[k].stmt = S_MEMFIX =>
                          (k > 1 /\ emitted[k - 1].stmt = S_NEXT)
            /\ \A n \in 0..Len(emitted) : OpenBlocks(n) >= 0
            /\ OpenBlocks(Len(emitted)) = 0

\* the body emitted for ++[>[]<-]: a merged run, a forward move, and a loop
\* within a loop
C25_Witness ==
    /\ pc = "execl"
    /\ Raw = TagsOf(Scenario4)
    /\ Len(emitted) = 9
    /\ emitted[1] = [stmt |-> S_ADD, arg |-> 2]
    /\ emitted[4].stmt = S_MEMFIX

----------------------------------------------------------------------------
(* The instruction pointer of the two backends *)

\* The values of insptr at which the emission loop of bf_data_through_gcc
\* tests `instructions[insptr] != BF_UNDEFINED': the cases with an operand
\* advance it by two, every other cell by one.
RECURSIVE EmitTests(_, _)
EmitTests(b, insptr) ==
    IF Get(b, insptr) = BF_UNDEFINED THEN {insptr}
    ELSE {insptr} \cup
         EmitTests(b, IF b[insptr] \in {BF_GET, BF_PUT} \/ b[insptr] \notin Tags
                      THEN insptr + 1 ELSE insptr + 2)

\* cell c of the bytecode is the tag cell of a unit, or the sentinel, and it
\* holds what it should
TagOrSentinel(c) ==
    \/ /\ IsUnit(c)
       /\ Bytecode[c] = Raw[UnitAt(c)]
    \/ /\ c = SentinelCell(Raw)
       /\ Bytecode[c] = BF_UNDEFINED

\* C26: for every bytecode that compress produces from a validated program,
\* each time the dispatch loop of bf_data_run or the emission loop of
\* bf_data_through_gcc tests or dispatches on the cell at the instruction
\* pointer, that cell is a tag cell or the final sentinel, never an operand
\* cell, whatever the operand's value, and the pointer never exceeds the
\* sentinel's index
C26_PointerOnTagCells ==
    /\ pc \in {"run", "close", "crashed"} =>
           /\ TagOrSentinel(vm.insptr)
           /\ vm.insptr <= SentinelCell(Raw)
    /\ HasEmitted =>
           \A k \in EmitTests(Bytecode, 0) :
               /\ TagOrSentinel(k)
               /\ k <= SentinelCell(Raw)

\* []+ has been run: the operand of its LoopEnd is zero, the operand of its
\* Increment equals the tag BF_INC, and the dispatch loop has stepped over
\* both to the sentinel, as the emission loop does
C26_Witness ==
    /\ pc = "close"
    /\ goal = GOAL_EVAL
    /\ Raw = <<BF_LOOP_START, BF_LOOP_END, BF_INC>>
    /\ Bytecode[3] = BF_UNDEFINED
    /\ Bytecode[5] = BF_INC
    /\ vm.insptr = 6
    /\ 6 \in EmitTests(Bytecode, 0)

----------------------------------------------------------------------------
(* bf_data_run: the cursor and the capacity *)

\* the cursor, computed over the integers, has not gone below zero in the
\* iterations executed so far
NeverBelow == ~AsCoded.below

----------------------------------------------------------------------------
(* main: the program text on standard input *)

\* getchar() can only return EOF, and consumes nothing
InputExhausted == \A g \in Getchar(in_pos) : g.c = EOF /\ g.pos = in_pos

\* C28: when no -c or -f option is given, the program text is read from
\* standard input up to end-of-input and the interpreter's ReadByte reads the
\* same standard input afterwards; therefore in that mode every ReadByte the
\* program executes finds the input exhausted and stores the end-of-input
\* value
C28_StdinIsExhausted ==
    input_mode = READ_STDIN =>
        /\ stdin = src
        /\ (pc = "loaded" /\ ret = STATUS_OK) => file_pos = Len(src)
        /\ (pc = "load" /\ file_pos = Len(src)) => ENABLED LoadEnd
        /\ pc = "run" => InputExhausted

====
